---- MODULE Spec2Model ----
(***************************************************************************)
(* Model of the response-interpretation and project-scaffolding pipeline   *)
(* of mcp-server-builder: ResponseParser.ts (extraction strategies and the *)
(* strategy selector), Templates.ts (TemplateRegistry.renderTemplate),     *)
(* CodeGenerator.ts (the three file generators, generateProject and its    *)
(* stages), OpenAIService.ts (generateServerSpecification) and             *)
(* CreateServerCommand (execute, the name functions, the local template,   *)
(* resolveTargetDirectory), the script of the webview of WebviewPanel and  *)
(* ConfigurationManager (getOpenAIApiKey, setOpenAIApiKey).                *)
(*                                                                         *)
(* A text is a sequence of tokens.  A token is a TLA+ string standing for  *)
(* the same characters of the JavaScript string; the regular expressions   *)
(* of the source are translated over tokens.  Multi-character tokens are   *)
(* words ([A-Za-z0-9_]+) or fixed punctuation (Fence, "##") that the       *)
(* modelled inputs never split.                                            *)
(***************************************************************************)
EXTENDS Integers, Sequences, FiniteSets, TLC

VARIABLES
    response,      \* the raw response text handed to a parser
    origin,        \* how the response text was put together (history variable)
    parserUsed,    \* "none" before parsing, else the strategy that ran
    caller,        \* "none", "direct" (strategy called directly) or "factory"
    outcome,       \* "none", "ok" (a record was returned) or "throw"
    jsonData,      \* what extractJson returned to the strategy (JNull for null)
    record,        \* the ParsedResponse returned
    templates,     \* TemplateRegistry.templates: template name -> template
    templateName,  \* the name renderTemplate is called with
    variables,     \* the variables it is called with: <<key, value>> entries
    renderCalls,   \* how many times renderTemplate was called with them
    renderOutcome, \* "none", "ok" or "throw" (the last call)
    rendered,      \* what the last call returned
    firstRendered, \* what the first call returned
    options,       \* the GenerationOptions handed to selectTemplate
    parsedResponse, \* the ParsedResponse handed to selectTemplate
    selected,      \* "none", else the template name selectTemplate returned
    genOptions,    \* the GenerationOptions handed to generateStructure
    genParsed,     \* the ParsedResponse handed to generateStructure
    structure,     \* what generateStructure returned (made is FALSE before the call)
    rawName,       \* the raw name handed to the name functions
    nameCall,      \* "none", else the function called ("cancelled": no name)
    nameOnce,      \* what the function returned
    nameTwice,     \* what it returned when applied to its own result
    aiReply,       \* what the OpenAI client did on the last request
    aiCalls,       \* calls of generateServerSpecification so far
    aiRequests,    \* chat-completion requests sent so far
    aiOutcome,     \* "none", "resolved" or "rejected" (the last call)
    aiResult,      \* the content it resolved to, or the message it rejected with
    entry,         \* "none", else what is run: "execute", "generateProject" alone,
                   \* or "structure" (generateProject from its structure on)
    stage,         \* where the run is
    projOptions,   \* the GenerationOptions of generateProject
    writable, \* fs.accessSync of the parent of the output path succeeds
    source,        \* openAIResponse and usedFallback of execute, with the cause
    projParsed,    \* what parseResponse returned
    projStructure, \* what generateProjectStructure returned
    onDisk,          \* the directories and files below the output path
    tried,      \* the directories and files mkdirSync and the loop of
                   \* createFiles were run on (history variable)
    refused,        \* the directories and files the file system refuses
    passed,        \* the stages of generateProject that returned (history variable)
    thrown,        \* the errors generateProject rejected with, and where
    statuses,      \* the levels sent to the webview, in order
    notifications, \* the messages shown to the user, in order
    generating,    \* the generating flag of the script of the webview
    seen,          \* how many of the statuses the script has handled
    posted,        \* generateServer commands the script posted
    secret,        \* what secret storage holds under SECRET_KEY (<<>>: nothing)
    legacy,        \* the setting openaiApiKey (<<>>: the empty string)
    keyCall,       \* "none", else the last function called: "get" or "set"
    keyArg,        \* the apiKey of the last call of setOpenAIApiKey
    keyReturned,   \* what the last call of getOpenAIApiKey returned
    keyCalls,      \* calls of the two functions so far
    migrated,      \* the last call of getOpenAIApiKey took the legacy value
    folder,        \* the candidate names that exist in the base folder, as the
                   \* numbers of their suffixes (0: the preferred name)
    runAt,         \* where each execution of resolveTargetDirectory and the
                   \* generation after it is
    runDir,        \* the candidate each execution was returned, in a set
                   \* that is empty when none was
    folderAt,      \* the folder when each execution was requested, and when
                   \* its ensureUniqueDirectory was called (history variable)
    filled         \* the candidates whose directory generation wrote into

parseVars == <<response, origin, parserUsed, caller, outcome, jsonData, record>>

renderVars ==
    <<templates, templateName, variables, renderCalls, renderOutcome, rendered,
      firstRendered>>

selectVars == <<options, parsedResponse, selected>>

structVars == <<genOptions, genParsed, structure>>

nameVars == <<rawName, nameCall, nameOnce, nameTwice>>

aiVars == <<aiReply, aiCalls, aiRequests, aiOutcome, aiResult>>

createVars ==
    <<entry, stage, projOptions, writable, source, projParsed, projStructure, onDisk,
      tried, refused, passed, thrown, statuses, notifications, generating, seen, posted>>

panelVars == <<generating, seen, posted>>

keyVars == <<secret, legacy, keyCall, keyArg, keyReturned, keyCalls, migrated>>

targetVars == <<folder, runAt, runDir, folderAt, filled>>

laterVars == <<structVars, nameVars, aiVars, createVars, keyVars, targetVars>>

vars == <<parseVars, renderVars, selectVars, laterVars>>

----------------------------------------------------------------------------
(* Sequences of tokens *)

\* the token of three backquotes that opens and closes a fenced block
Fence == "FENCE"

Concat3(a, b, c) == a \o b \o c

IsSpace(c) == c \in {" ", "\n"}

\* \w+ tokens of the model's alphabet
WordTokens ==
    {"json", "typescript", "javascript", "python", "bash", "x", "y", "n", "R",
     "null", "true", "0", "1", "import", "const", "function", "class", "def",
     "export", "Server", "Code", "PAD50", "Installation", "Setup", "README",
     "Overview", "Usage", "Example"}

IsWord(c) == c \in WordTokens

\* number of JavaScript characters a token stands for
TokLen(c) ==
    CASE c = Fence -> 3
      [] c = "##" -> 2
      [] c = "json" -> 4
      [] c = "typescript" -> 10
      [] c = "javascript" -> 10
      [] c = "python" -> 6
      [] c = "bash" -> 4
      [] c = "null" -> 4
      [] c = "true" -> 4
      [] c = "import" -> 6
      [] c = "const" -> 5
      [] c = "function" -> 8
      [] c = "class" -> 5
      [] c = "def" -> 3
      [] c = "export" -> 6
      [] c = "Server" -> 6
      [] c = "Code" -> 4
      [] c = "Installation" -> 12
      [] c = "Setup" -> 5
      [] c = "README" -> 6
      [] c = "Overview" -> 8
      [] c = "Usage" -> 5
      [] c = "Example" -> 7
      [] c = "PAD50" -> 50
      [] OTHER -> 1

RECURSIVE CharLen(_)
CharLen(s) ==
    IF s = <<>> THEN 0
    ELSE IF Len(s) = 1 THEN TokLen(s[1])
    ELSE CharLen(SubSeq(s, 1, Len(s) \div 2)) + CharLen(SubSeq(s, Len(s) \div 2 + 1, Len(s)))

\* String.prototype.substring(from, to) with 1-based inclusive token positions
Sub(s, from, to) == IF from > to THEN <<>> ELSE SubSeq(s, from, to)

RECURSIVE SkipWs(_, _)
\* first position >= i that holds no white space (Len(s)+1 when there is none)
SkipWs(s, i) ==
    IF i <= Len(s) /\ IsSpace(s[i]) THEN SkipWs(s, i + 1) ELSE i

RECURSIVE SkipWsBack(_, _)
\* last position <= i that holds no white space (0 when there is none)
SkipWsBack(s, i) ==
    IF i >= 1 /\ IsSpace(s[i]) THEN SkipWsBack(s, i - 1) ELSE i

\* String.prototype.trim
Trim(s) == Sub(s, SkipWs(s, 1), SkipWsBack(s, Len(s)))

\* String.prototype.indexOf(c) for one token: 0 when absent
IndexOf(s, c) ==
    IF \E i \in 1..Len(s) : s[i] = c
    THEN CHOOSE i \in 1..Len(s) : s[i] = c /\ \A j \in 1..(i - 1) : s[j] # c
    ELSE 0

\* String.prototype.lastIndexOf(c) for one token: 0 when absent
LastIndexOf(s, c) ==
    IF \E i \in 1..Len(s) : s[i] = c
    THEN CHOOSE i \in 1..Len(s) : s[i] = c /\ \A j \in (i + 1)..Len(s) : s[j] # c
    ELSE 0

\* first position >= from where token c stands: 0 when there is none
IndexFrom(s, c, from) ==
    IF \E i \in from..Len(s) : s[i] = c
    THEN CHOOSE i \in from..Len(s) : s[i] = c /\ \A j \in from..(i - 1) : s[j] # c
    ELSE 0

\* String.prototype.includes for a sequence of tokens
Includes(s, sub) ==
    \E i \in 1..(Len(s) - Len(sub) + 1) : SubSeq(s, i, i + Len(sub) - 1) = sub

----------------------------------------------------------------------------
(* JSON values.  Every value is a record [t, v, m]: t is "undefined" (an   *)
(* absent property), "null", "bool", "num", "str", "arr" or "obj"; v holds *)
(* the tokens of a string, number or boolean; m holds the <<key, value>>   *)
(* members of an object in insertion order, and the elements of an array   *)
(* as members with the empty key.                                          *)

Undefined == [t |-> "undefined", v |-> <<>>, m |-> <<>>]
JNull == [t |-> "null", v |-> <<>>, m |-> <<>>]
JTrue == [t |-> "bool", v |-> <<"true">>, m |-> <<>>]
JStr(s) == [t |-> "str", v |-> s, m |-> <<>>]
JNum(d) == [t |-> "num", v |-> d, m |-> <<>>]
JArr(a) == [t |-> "arr", v |-> <<>>, m |-> [i \in 1..Len(a) |-> <<<<>>, a[i]>>]]
JObj(members) == [t |-> "obj", v |-> <<>>, m |-> members]

\* property read data[key]: the member named key, undefined when none
Get(data, key) ==
    IF data.t = "obj" /\ \E i \in 1..Len(data.m) : data.m[i][1] = key
    THEN data.m[CHOOSE k \in 1..Len(data.m) : data.m[k][1] = key][2]
    ELSE Undefined

\* property write: JSON.parse keeps one member per key, the last value wins
Put(members, key, val) ==
    IF \E i \in 1..Len(members) : members[i][1] = key
    THEN [i \in 1..Len(members) |->
             IF members[i][1] = key THEN <<key, val>> ELSE members[i]]
    ELSE Append(members, <<key, val>>)

\* JavaScript truthiness
Truthy(val) ==
    CASE val.t = "undefined" -> FALSE
      [] val.t = "null" -> FALSE
      [] val.t = "bool" -> val.v = <<"true">>
      [] val.t = "num" -> val.v # <<"0">>
      [] val.t = "str" -> val.v # <<>>
      [] OTHER -> TRUE

\* the typeof operator
TypeOf(val) ==
    CASE val.t = "undefined" -> "undefined"
      [] val.t = "bool" -> "boolean"
      [] val.t = "num" -> "number"
      [] val.t = "str" -> "string"
      [] OTHER -> "object"

----------------------------------------------------------------------------
(* JSON.parse and JSON.stringify over token sequences.  Inside a string    *)
(* literal a backslash escapes the next token; the modelled texts only put *)
(* a quote, a backslash or the letter n (a new line) after a backslash.    *)
(* A value that is needed more than once is handed on as a parameter.      *)

Digits == {"0", "1"}

ParseFail == [ok |-> FALSE, val |-> Undefined, next |-> 0]

ParseOk(val, next) == [ok |-> TRUE, val |-> val, next |-> next]

Unescape(c) == IF c = "n" THEN "\n" ELSE c

\* the least element of a non-empty set of numbers
Least(S) == CHOOSE k \in S : \A m \in S : k <= m

\* the greater of two numbers
Greater(x, y) == IF x < y THEN y ELSE x

\* the greatest element of a non-empty set of numbers
Greatest(S) == CHOOSE k \in S : \A m \in S : m <= k

\* the token of a string literal that position p gives
Pick(s, i, p) == IF p > i /\ s[p - 1] = "\\" THEN Unescape(s[p]) ELSE s[p]

\* the backslashes that stand directly before position p of a string
\* literal whose content starts at i
BackslashesBefore(s, i, p) ==
    p - 1 - Greatest({i - 1} \cup {q \in i..(p - 1) : s[q] # "\\"})

\* the backslash at p starts an escape: an even number of backslashes
\* stands directly before it
IsEscaper(s, i, p) == s[p] = "\\" /\ BackslashesBefore(s, i, p) % 2 = 0

IsEscaped(s, i, p) == p > i /\ IsEscaper(s, i, p - 1)

\* the positions of the literal that closes at j which give a token of
\* its content: every one but the backslashes that start an escape
ContentPositions(s, i, j) ==
    SelectSeq([k \in 1..(j - i) |-> i + k - 1], LAMBDA p : ~IsEscaper(s, i, p))

\* the tokens that a sequence of positions gives
Picked(s, i, ps) == [k \in 1..Len(ps) |-> Pick(s, i, ps[k])]

\* the content of the string literal that closes at j
StringContent(s, i, j) == Picked(s, i, ContentPositions(s, i, j))

\* the literal closes at j: no raw new line and no escape of another token
\* than a quote, a backslash or n may stand before it
StringTo(s, i, j, acc) ==
    IF \E p \in i..(j - 1) :
          \/ s[p] = "\n"
          \/ IsEscaper(s, i, p) /\ s[p + 1] \notin {"\"", "\\", "n"}
    THEN ParseFail
    ELSE ParseOk(JStr(acc \o StringContent(s, i, j)), j + 1)

\* s[i] is the first token after the opening quote; acc the content so far
ParseString(s, i, acc) ==
    IF \E j \in i..Len(s) : s[j] = "\"" /\ ~IsEscaped(s, i, j)
    THEN StringTo(s, i, Least({j \in i..Len(s) : s[j] = "\"" /\ ~IsEscaped(s, i, j)}), acc)
    ELSE ParseFail

RECURSIVE DigitsEnd(_, _)
\* first position >= i that holds no digit
DigitsEnd(s, i) ==
    IF i <= Len(s) /\ s[i] \in Digits THEN DigitsEnd(s, i + 1) ELSE i

RECURSIVE ParseValue(_, _)
RECURSIVE ParseMembers(_, _, _)
RECURSIVE ParseElements(_, _, _)

\* after a member: a comma and the next member, or the closing brace at d
MemberNext(s, d, members) ==
    IF d > Len(s) THEN ParseFail
    ELSE IF s[d] = "," THEN ParseMembers(s, SkipWs(s, d + 1), members)
    ELSE IF s[d] = "}" THEN ParseOk(JObj(members), d + 1)
    ELSE ParseFail

\* k is the parsed key, v the parsed value of a member
MemberValue(s, k, v, acc) ==
    IF ~v.ok THEN ParseFail
    ELSE MemberNext(s, SkipWs(s, v.next), Put(acc, k.val.v, v.val))

\* k is the parsed key, c the position where the colon is expected
MemberColon(s, k, c, acc) ==
    IF c > Len(s) \/ s[c] # ":" THEN ParseFail
    ELSE MemberValue(s, k, ParseValue(s, SkipWs(s, c + 1)), acc)

MemberKey(s, k, acc) ==
    IF ~k.ok THEN ParseFail ELSE MemberColon(s, k, SkipWs(s, k.next), acc)

\* s[i] is where a member's key is expected; acc the members so far
ParseMembers(s, i, acc) ==
    IF i > Len(s) \/ s[i] # "\"" THEN ParseFail
    ELSE MemberKey(s, ParseString(s, i + 1, <<>>), acc)

\* after an element: a comma and the next element, or the closing bracket at d
ElementNext(s, d, elements) ==
    IF d > Len(s) THEN ParseFail
    ELSE IF s[d] = "," THEN ParseElements(s, SkipWs(s, d + 1), elements)
    ELSE IF s[d] = "]" THEN ParseOk(JArr(elements), d + 1)
    ELSE ParseFail

ElementValue(s, v, acc) ==
    IF ~v.ok THEN ParseFail
    ELSE ElementNext(s, SkipWs(s, v.next), Append(acc, v.val))

\* s[i] is where an array element is expected; acc the elements so far
ParseElements(s, i, acc) == ElementValue(s, ParseValue(s, i), acc)

\* j is the first position after the opening brace that is no white space
ObjectFrom(s, j) ==
    IF j <= Len(s) /\ s[j] = "}" THEN ParseOk(JObj(<<>>), j + 1)
    ELSE ParseMembers(s, j, <<>>)

ArrayFrom(s, j) ==
    IF j <= Len(s) /\ s[j] = "]" THEN ParseOk(JArr(<<>>), j + 1)
    ELSE ParseElements(s, j, <<>>)

NumberTo(s, i, e) == ParseOk(JNum(SubSeq(s, i, e - 1)), e)

\* s[i] is the first token of a value (white space already skipped)
ParseValue(s, i) ==
    IF i > Len(s) THEN ParseFail
    ELSE IF s[i] = "{" THEN ObjectFrom(s, SkipWs(s, i + 1))
    ELSE IF s[i] = "[" THEN ArrayFrom(s, SkipWs(s, i + 1))
    ELSE IF s[i] = "\"" THEN ParseString(s, i + 1, <<>>)
    ELSE IF s[i] = "null" THEN ParseOk(JNull, i + 1)
    ELSE IF s[i] = "true" THEN ParseOk(JTrue, i + 1)
    ELSE IF s[i] = "0" THEN ParseOk(JNum(<<"0">>), i + 1)
    ELSE IF s[i] \in Digits THEN NumberTo(s, i, DigitsEnd(s, i))
    ELSE ParseFail

\* r is the value parsed at the start of s: nothing but white space may follow
WholeValue(s, r) ==
    IF r.ok /\ SkipWs(s, r.next) > Len(s)
    THEN [ok |-> TRUE, val |-> r.val]
    ELSE [ok |-> FALSE, val |-> Undefined]

\* JSON.parse(s): ok is FALSE where JSON.parse throws a SyntaxError
JSONParse(s) == WholeValue(s, ParseValue(s, SkipWs(s, 1)))

\* one token of a string literal as JSON.stringify writes it
EscapeToken(c) ==
    CASE c = "\"" -> <<"\\", "\"">>
      [] c = "\\" -> <<"\\", "\\">>
      [] c = "\n" -> <<"\\", "n">>
      [] OTHER -> <<c>>

RECURSIVE Escape(_)
\* the content of a string literal as JSON.stringify writes it
Escape(s) ==
    IF s = <<>> THEN <<>>
    ELSE IF Len(s) = 1 THEN EscapeToken(s[1])
    ELSE Escape(SubSeq(s, 1, Len(s) \div 2)) \o Escape(SubSeq(s, Len(s) \div 2 + 1, Len(s)))

RECURSIVE Stringify(_)
RECURSIVE StringifyMembers(_, _)
RECURSIVE StringifyElements(_, _)

StringifyMembers(m, i) ==
    IF i > Len(m) THEN <<>>
    ELSE (IF i > 1 THEN <<",">> ELSE <<>>)
         \o <<"\"">> \o Escape(m[i][1]) \o <<"\"", ":">> \o Stringify(m[i][2])
         \o StringifyMembers(m, i + 1)

StringifyElements(a, i) ==
    IF i > Len(a) THEN <<>>
    ELSE (IF i > 1 THEN <<",">> ELSE <<>>) \o Stringify(a[i][2])
         \o StringifyElements(a, i + 1)

\* JSON.stringify(val) without indentation
Stringify(val) ==
    CASE val.t = "str" -> <<"\"">> \o Escape(val.v) \o <<"\"">>
      [] val.t = "num" -> val.v
      [] val.t = "bool" -> val.v
      [] val.t = "null" -> <<"null">>
      [] val.t = "arr" -> <<"[">> \o StringifyElements(val.m, 1) \o <<"]">>
      [] val.t = "obj" -> <<"{">> \o StringifyMembers(val.m, 1) \o <<"}">>
      [] OTHER -> <<>>

----------------------------------------------------------------------------
(* BaseResponseParser: extractJson, findJsonObjects, validateJsonStructure *)

StringFields ==
    {<<"serverCode">>, <<"packageJson">>, <<"readme">>,
     <<"installInstructions">>, <<"usageExample">>}

MappingFields == {<<"dependencies">>, <<"devDependencies">>, <<"scripts">>}

\* a || b of JavaScript
OrElse(a, b) == IF Truthy(a) THEN a ELSE b

\* line 114: data.serverCode && typeof data.serverCode === 'string' && trimmed length > 0
HasServerCode(sc) == Truthy(sc) /\ TypeOf(sc) = "string" /\ Len(Trim(sc.v)) > 0

\* lines 124, 130-138: the field is absent or of the wanted type
AbsentOrOfType(val, type) == TypeOf(val) = "undefined" \/ TypeOf(val) = type

validateJsonStructure(data) ==
    IF ~Truthy(data) \/ TypeOf(data) # "object" THEN FALSE
    ELSE IF /\ ~HasServerCode(Get(data, <<"serverCode">>))
            /\ ~Truthy(Get(data, <<"packageJson">>))
            /\ ~Truthy(Get(data, <<"readme">>))
            /\ ~Truthy(Get(data, <<"installInstructions">>))
            /\ ~Truthy(Get(data, <<"usageExample">>))
         THEN FALSE
    ELSE IF \E f \in StringFields : ~AbsentOrOfType(Get(data, f), "string")
         THEN FALSE
    ELSE IF \E f \in MappingFields : ~AbsentOrOfType(Get(data, f), "object")
         THEN FALSE
    ELSE TRUE

\* first position >= i that holds a brace (Len(text)+1 when there is none)
NextBrace(text, i) ==
    IF \E k \in i..Len(text) : text[k] \in {"{", "}"}
    THEN Least({k \in i..Len(text) : text[k] \in {"{", "}"}})
    ELSE Len(text) + 1

RECURSIVE FindJsonObjectsFrom(_, _, _, _, _)
\* the loop of findJsonObjects at index i, where it passes the tokens that
\* are no brace unchanged; startIdx 0 stands for -1
FindJsonObjectsFrom(text, i, braceCount, startIdx, jsonObjects) ==
    IF i > Len(text) THEN jsonObjects
    ELSE IF text[i] = "{"
         THEN FindJsonObjectsFrom(text, NextBrace(text, i + 1), braceCount + 1,
                                  IF braceCount = 0 THEN i ELSE startIdx, jsonObjects)
    ELSE IF braceCount - 1 = 0 /\ startIdx # 0
         THEN FindJsonObjectsFrom(text, NextBrace(text, i + 1), 0, 0,
                                  Append(jsonObjects, SubSeq(text, startIdx, i)))
    ELSE IF braceCount - 1 < 0
         THEN FindJsonObjectsFrom(text, NextBrace(text, i + 1), 0, 0, jsonObjects)
    ELSE FindJsonObjectsFrom(text, NextBrace(text, i + 1), braceCount - 1, startIdx,
                             jsonObjects)

findJsonObjects(text) == FindJsonObjectsFrom(text, NextBrace(text, 1), 0, 0, <<>>)

NoMatch == [found |-> FALSE, group |-> <<>>]

\* the group ([\s\S]*?) of a fenced block: it starts at a, the closing fence
\* is at p, and the white space before the fence is left out
FenceGroup(s, a, p) ==
    IF p = 0 THEN NoMatch
    ELSE [found |-> TRUE,
          group |-> Sub(s, a, Greater(a, SkipWsBack(s, p - 1) + 1) - 1)]

\* a is the first position after the opening fence and its white space
FenceBody(s, a) == FenceGroup(s, a, IndexFrom(s, Fence, a))

\* the first match of /```json\s*([\s\S]*?)\s*```/: its group 1, if any
JsonFenceMatch(s) ==
    IF \E i \in 1..(Len(s) - 1) : s[i] = Fence /\ s[i + 1] = "json"
    THEN FenceBody(s, SkipWs(s,
             Least({i \in 1..(Len(s) - 1) : s[i] = Fence /\ s[i + 1] = "json"}) + 2))
    ELSE NoMatch

\* lines 25-30: cut to the first '{' .. last '}' when both are found in order
CutToBraces(jsonString, firstBrace, lastBrace) ==
    IF firstBrace # 0 /\ lastBrace # 0 /\ lastBrace > firstBrace
    THEN SubSeq(jsonString, firstBrace, lastBrace)
    ELSE jsonString

\* lines 33-36, 47-50, 59-62: the parsed value when it parses and validates
Accept(parsed) ==
    IF parsed.ok /\ validateJsonStructure(parsed.val)
    THEN [ok |-> TRUE, val |-> parsed.val]
    ELSE [ok |-> FALSE, val |-> Undefined]

CleanedJson(trimmed) ==
    CutToBraces(trimmed, IndexOf(trimmed, "{"), LastIndexOf(trimmed, "}"))

\* lines 18-41: the fenced block
FencedJson(jsonMatch) ==
    IF ~jsonMatch.found THEN [ok |-> FALSE, val |-> Undefined]
    ELSE Accept(JSONParse(CleanedJson(Trim(jsonMatch.group))))

RECURSIVE FirstValidObject(_, _)

\* the first candidate settles the loop
FirstCandidateOnly(jsonObjects, i, accepted) == accepted

FirstValidOr(jsonObjects, i, accepted) ==
    IF accepted.ok THEN accepted ELSE FirstValidObject(jsonObjects, i + 1)

\* lines 44-55: the first candidate that parses and validates
FirstValidObject(jsonObjects, i) ==
    IF i > Len(jsonObjects) THEN [ok |-> FALSE, val |-> Undefined]
    ELSE FirstValidOr(jsonObjects, i, Accept(JSONParse(jsonObjects[i])))

\* lines 57-67: the last resort
WholeOrNull(whole) == IF whole.ok THEN whole.val ELSE JNull

ScannedOr(resp, scanned) ==
    IF scanned.ok THEN scanned.val
    ELSE WholeOrNull(Accept(JSONParse(Trim(resp))))

FencedOr(resp, fenced) ==
    IF fenced.ok THEN fenced.val
    ELSE ScannedOr(resp, FirstValidObject(findJsonObjects(resp), 1))

\* extractJson: the object accepted, JNull when it returns null
extractJson(resp) ==
    IF Len(Trim(resp)) = 0 THEN JNull
    ELSE FencedOr(resp, FencedJson(JsonFenceMatch(resp)))

----------------------------------------------------------------------------
(* extractCodeBlocks and extractSections.  Both return a Record<string,    *)
(* string>, modelled as a sequence of <<name, content>> pairs with one     *)
(* pair per name; a name is a token sequence.                              *)

\* the first character and the remaining characters of a multi-character token
SplitTok ==
    [c \in {"json", "typescript", "javascript", "python", "bash", "null", "true",
            "import", "const", "function", "class", "def", "export", "Server",
            "Code", "PAD50", "FENCE", "##", "Installation", "Setup", "README",
            "Overview", "Usage", "Example"} |->
        CASE c = "json" -> <<"j", "son">>
          [] c = "typescript" -> <<"t", "ypescript">>
          [] c = "javascript" -> <<"j", "avascript">>
          [] c = "python" -> <<"p", "ython">>
          [] c = "bash" -> <<"b", "ash">>
          [] c = "null" -> <<"n", "ull">>
          [] c = "true" -> <<"t", "rue">>
          [] c = "import" -> <<"i", "mport">>
          [] c = "const" -> <<"c", "onst">>
          [] c = "function" -> <<"f", "unction">>
          [] c = "class" -> <<"c", "lass">>
          [] c = "def" -> <<"d", "ef">>
          [] c = "export" -> <<"e", "xport">>
          [] c = "Server" -> <<"S", "erver">>
          [] c = "Code" -> <<"C", "ode">>
          [] c = "Installation" -> <<"I", "nstallation">>
          [] c = "Setup" -> <<"S", "etup">>
          [] c = "README" -> <<"R", "EADME">>
          [] c = "Overview" -> <<"O", "verview">>
          [] c = "Usage" -> <<"U", "sage">>
          [] c = "Example" -> <<"E", "xample">>
          [] c = "PAD50" -> <<"x", "PAD49">>
          [] c = "FENCE" -> <<"BACKQUOTE", "BACKQUOTE2">>
          [] c = "##" -> <<"#", "#">>]

FirstChar(c) == IF c \in DOMAIN SplitTok THEN SplitTok[c][1] ELSE c

RestOfTok(c) == IF c \in DOMAIN SplitTok THEN <<SplitTok[c][2]>> ELSE <<>>

\* String.prototype.toLowerCase, token by token
LowerTok(c) ==
    CASE c = "R" -> "r"
      [] c = "S" -> "s"
      [] c = "C" -> "c"
      [] c = "Server" -> "server"
      [] c = "Code" -> "code"
      [] c = "Installation" -> "installation"
      [] c = "Setup" -> "setup"
      [] c = "README" -> "readme"
      [] c = "Overview" -> "overview"
      [] c = "Usage" -> "usage"
      [] c = "Example" -> "example"
      [] c = "I" -> "i"
      [] c = "O" -> "o"
      [] c = "U" -> "u"
      [] c = "E" -> "e"
      [] OTHER -> c

\* a plain-object property read: the string stored under name, or undefined
Lookup(map, name) ==
    IF \E i \in 1..Len(map) : map[i][1] = name
    THEN JStr(map[CHOOSE i \in 1..Len(map) : map[i][1] = name][2])
    ELSE Undefined

RECURSIVE WordEnd(_, _)
\* first position >= i that holds no \w token
WordEnd(s, i) == IF i <= Len(s) /\ IsWord(s[i]) THEN WordEnd(s, i + 1) ELSE i

RECURSIVE CodeBlocksFrom(_, _, _)

\* codeBlocks[language] = code, for the block whose body starts at a
BlockBody(s, language, a, codeBlocks) ==
    CodeBlocksFrom(s, IndexFrom(s, Fence, a) + 1,
                   Put(codeBlocks, language, FenceBody(s, a).group))

\* language = match[1] || 'unknown'; w is where the \w+ after the fence ends
BlockLanguage(s, i, w, codeBlocks) ==
    BlockBody(s, IF w > i + 1 THEN SubSeq(s, i + 1, w - 1) ELSE <<"unknown">>,
              SkipWs(s, w), codeBlocks)

\* i is the next opening fence (0: none); a block needs a closing fence
BlockAt(s, i, codeBlocks) ==
    IF i = 0 \/ IndexFrom(s, Fence, i + 1) = 0 THEN codeBlocks
    ELSE BlockLanguage(s, i, WordEnd(s, i + 1), codeBlocks)

\* the exec loop of /```(\w+)?\s*([\s\S]*?)\s*```/g from lastIndex
CodeBlocksFrom(s, lastIndex, codeBlocks) ==
    BlockAt(s, IndexFrom(s, Fence, lastIndex), codeBlocks)

extractCodeBlocks(resp) == CodeBlocksFrom(resp, 1, <<>>)

\* where the lookahead (?=##\s+|$) first holds at or after position c
SectionEnd(s, c) ==
    IF \E h \in c..(Len(s) - 1) : s[h] = "##" /\ IsSpace(s[h + 1])
    THEN Least({h \in c..(Len(s) - 1) : s[h] = "##" /\ IsSpace(s[h + 1])})
    ELSE Len(s) + 1

NoSection == [found |-> FALSE, name |-> <<>>, content |-> <<>>, next |-> 0]

\* the match whose (.+?) is the first character of s[a]: rest is what is
\* left of that token, c where the content goes on, h where the match ends
SectionTo(s, a, rest, c, h) ==
    [found |-> TRUE, name |-> <<FirstChar(s[a])>>,
     content |-> rest \o Sub(s, c, h - 1), next |-> h]

SectionContent(s, a, rest, c) == SectionTo(s, a, rest, c, SectionEnd(s, c))

SectionName1(s, a, rest) ==
    SectionContent(s, a, rest, IF rest = <<>> THEN SkipWs(s, a + 1) ELSE a + 1)

\* a is the first position after the header's white space
SectionHeader(s, i, a) ==
    IF a <= Len(s) THEN SectionName1(s, a, RestOfTok(s[a]))
    ELSE \* only white space follows: \s+ gives back a blank to (.+?)
         IF \E q \in (i + 2)..Len(s) : s[q] = " "
         THEN [found |-> TRUE, name |-> <<" ">>, content |-> <<>>,
               next |-> Len(s) + 1]
         ELSE NoSection

\* /##\s+(.+?)\s*([\s\S]*?)(?=##\s+|$)/ tried at position i.  The lazy (.+?)
\* stops after one character, because what follows it can always match.
SectionMatchAt(s, i) ==
    IF ~(s[i] = "##" /\ i + 1 <= Len(s) /\ IsSpace(s[i + 1])) THEN NoSection
    ELSE SectionHeader(s, i, SkipWs(s, i + 1))

\* sectionName = match[1].toLowerCase().replace(/\s+/g, '_')
RECURSIVE SectionName(_)
SectionName(name) ==
    IF name = <<>> THEN <<>>
    ELSE IF IsSpace(Head(name))
         THEN <<"_">> \o SectionName(Sub(name, SkipWs(name, 1), Len(name)))
         ELSE <<LowerTok(Head(name))>> \o SectionName(Tail(name))

RECURSIVE SectionsFrom(_, _, _)

\* sections[sectionName] = match[2].trim()
SectionPut(s, match, sections) ==
    SectionsFrom(s, match.next,
                 Put(sections, SectionName(match.name), Trim(match.content)))

SectionFirst(s, found, sections) ==
    IF found = {} THEN sections
    ELSE SectionPut(s, SectionMatchAt(s, Least(found)), sections)

\* the exec loop of the section expression from lastIndex
SectionsFrom(s, lastIndex, sections) ==
    SectionFirst(s, {i \in lastIndex..Len(s) : SectionMatchAt(s, i).found}, sections)

extractSections(resp) == SectionsFrom(resp, 1, <<>>)

\* the generated boilerplate of lines 189-235, one token each
BasicReadme == <<"# MCP Server ... MIT">>

BasicInstallInstructions == <<"1. Install dependencies: ... npm start">>

BasicUsageExample == <<"// Example usage ... server.start();">>

----------------------------------------------------------------------------
(* The four strategies.  A strategy returns [threw, jsonData, rec]: threw  *)
(* is TRUE where parse throws, jsonData is what extractJson gave it, rec   *)
(* the ParsedResponse (every field a JSON value, Undefined when not set).  *)

NoRecord ==
    [serverCode |-> Undefined, packageJson |-> Undefined, readme |-> Undefined,
     installInstructions |-> Undefined, usageExample |-> Undefined,
     dependencies |-> Undefined, devDependencies |-> Undefined,
     scripts |-> Undefined, additionalFiles |-> Undefined]

\* the object literal both JSON-reading strategies fill from jsonData
RecordOfJson(data) ==
    [serverCode |-> OrElse(Get(data, <<"serverCode">>), JStr(<<>>)),
     packageJson |-> Get(data, <<"packageJson">>),
     readme |-> Get(data, <<"readme">>),
     installInstructions |-> Get(data, <<"installInstructions">>),
     usageExample |-> Get(data, <<"usageExample">>),
     dependencies |-> Get(data, <<"dependencies">>),
     devDependencies |-> Get(data, <<"devDependencies">>),
     scripts |-> Get(data, <<"scripts">>),
     additionalFiles |-> Get(data, <<"additionalFiles">>)]

\* lines 244-258: throw when extractJson gave null
JsonRecord(data) ==
    IF ~Truthy(data)
    THEN [threw |-> TRUE, jsonData |-> data, rec |-> NoRecord]
    ELSE [threw |-> FALSE, jsonData |-> data, rec |-> RecordOfJson(data)]

JsonResponseParser_parse(resp) == JsonRecord(extractJson(resp))

\* /##\s+Server\s+Code/ tried at i: the position after it, 0 when it fails
HeadCode(s, a, b) ==
    IF b > a + 1 /\ b <= Len(s) /\ s[b] = "Code" THEN b + 1 ELSE 0

HeadServer(s, i, a) ==
    IF s[i] = "##" /\ a > i + 1 /\ a <= Len(s) /\ s[a] = "Server"
    THEN HeadCode(s, a, SkipWs(s, a + 1))
    ELSE 0

ServerCodeHead(s, i) == HeadServer(s, i, SkipWs(s, i + 1))

\* the group ([\s\S]*?) from c up to the next ## at h (0: to the end)
SectionGroup(s, c, h) ==
    [found |-> TRUE, group |-> Sub(s, c, IF h = 0 THEN Len(s) ELSE h - 1)]

ServerCodeFrom(s, c) == SectionGroup(s, c, IndexFrom(s, "##", c))

\* the first match of /##\s+Server\s+Code\s*([\s\S]*?)(?=##|$)/: its group 1
ServerCodeSection(s) ==
    IF \E i \in 1..Len(s) : ServerCodeHead(s, i) # 0
    THEN ServerCodeFrom(s, SkipWs(s,
             ServerCodeHead(s, Least({i \in 1..Len(s) : ServerCodeHead(s, i) # 0}))))
    ELSE NoMatch

TaggedAt(s, i) ==
    IF i = 0 \/ IndexFrom(s, Fence, i + 1) = 0 THEN NoMatch
    ELSE FenceBody(s, SkipWs(s,
             IF i + 1 <= Len(s) /\ s[i + 1] \in {"typescript", "javascript", "python"}
             THEN i + 2 ELSE i + 1))

\* the first match of /```(?:typescript|javascript|python)?\s*([\s\S]*?)\s*```/
TaggedBlock(s) == TaggedAt(s, IndexOf(s, Fence))

\* codeBlocks.typescript || codeBlocks.javascript || codeBlocks.python
TaggedCode(codeBlocks) ==
    OrElse(Lookup(codeBlocks, <<"typescript">>),
           OrElse(Lookup(codeBlocks, <<"javascript">>),
                  Lookup(codeBlocks, <<"python">>)))

\* lines 274-279: the code block of the Server Code section, '' without one
BlockCode(codeBlockMatch) ==
    IF codeBlockMatch.found THEN JStr(codeBlockMatch.group) ELSE JStr(<<>>)

SectionCode(serverCodeMatch) ==
    IF serverCodeMatch.found THEN BlockCode(TaggedBlock(serverCodeMatch.group))
    ELSE JStr(<<>>)

\* lines 282-292
OtherCode(serverCode, sections, codeBlocks, tagged) ==
    IF Truthy(serverCode) THEN serverCode
    ELSE IF Truthy(Lookup(sections, <<"server", "_", "code">>))
         THEN Lookup(sections, <<"server", "_", "code">>)
    ELSE IF Truthy(Lookup(sections, <<"server">>)) THEN Lookup(sections, <<"server">>)
    ELSE IF Truthy(tagged) THEN OrElse(tagged, JStr(<<>>))
    ELSE IF Truthy(Lookup(codeBlocks, <<"unknown">>))
         THEN Lookup(codeBlocks, <<"unknown">>)
    ELSE serverCode

\* lines 295-298
MarkdownReadme(readme, sections) ==
    IF ~Truthy(readme) /\ Truthy(Lookup(sections, <<"overview">>))
    THEN Lookup(sections, <<"overview">>)
    ELSE readme

\* lines 307-314: JSON.parse(sections.files), undefined when it throws
ParsedFiles(parsed) == IF parsed.ok THEN parsed.val ELSE Undefined

MarkdownFiles(files) ==
    IF Truthy(files) THEN ParsedFiles(JSONParse(files.v)) ELSE Undefined

MarkdownRecord(resp, codeBlocks, sections) ==
    [threw |-> FALSE, jsonData |-> JNull,
     rec |-> [NoRecord EXCEPT
         !.serverCode = OtherCode(SectionCode(ServerCodeSection(resp)), sections,
                                  codeBlocks, TaggedCode(codeBlocks)),
         !.readme =
             MarkdownReadme(OrElse(Lookup(sections, <<"readme">>),
                                   OrElse(Lookup(sections, <<"read", "_", "me">>),
                                          JStr(<<>>))),
                            sections),
         !.installInstructions =
             OrElse(Lookup(sections, <<"installation">>),
                    OrElse(Lookup(sections, <<"setup">>),
                           Lookup(sections, <<"install">>))),
         !.usageExample =
             OrElse(Lookup(sections, <<"usage">>),
                    OrElse(Lookup(sections, <<"example">>),
                           Lookup(sections, <<"how", "_", "to", "_", "use">>))),
         !.additionalFiles = MarkdownFiles(Lookup(sections, <<"files">>))]]

MarkdownResponseParser_parse(resp) ==
    MarkdownRecord(resp, extractCodeBlocks(resp), extractSections(resp))

TextResponseParser_parse(resp) ==
    [threw |-> FALSE, jsonData |-> JNull,
     rec |-> [NoRecord EXCEPT
         !.serverCode = JStr(Trim(resp)),
         !.readme = JStr(BasicReadme),
         !.installInstructions = JStr(BasicInstallInstructions),
         !.usageExample = JStr(BasicUsageExample)]]

CodeWords == {"import", "const", "function", "class", "def", "export"}

\* the first match of /(?:import|const|function|class|def|export)\s+[\s\S]{50,}/
CodeLikeMatch(s) ==
    IF \E i \in 1..(Len(s) - 1) :
          s[i] \in CodeWords /\ IsSpace(s[i + 1]) /\ CharLen(Sub(s, i + 2, Len(s))) >= 50
    THEN [found |-> TRUE,
          text |-> Sub(s, Least({i \in 1..(Len(s) - 1) :
                                    /\ s[i] \in CodeWords
                                    /\ IsSpace(s[i + 1])
                                    /\ CharLen(Sub(s, i + 2, Len(s))) >= 50}),
                       Len(s))]
    ELSE [found |-> FALSE, text |-> <<>>]

\* lines 348-353: the record parse starts from
EmptyResult ==
    [NoRecord EXCEPT !.serverCode = JStr(<<>>), !.readme = JStr(<<>>),
                     !.installInstructions = JStr(<<>>), !.usageExample = JStr(<<>>)]

\* lines 372-374
MixedBlockCode(serverCode, tagged) ==
    IF ~Truthy(serverCode) /\ Truthy(tagged) THEN OrElse(tagged, JStr(<<>>))
    ELSE serverCode

\* lines 378-388: field = a || b || c || '' when the field is falsy
MixedSection(field, a, b, c) ==
    IF ~Truthy(field) THEN OrElse(a, OrElse(b, OrElse(c, JStr(<<>>)))) ELSE field

\* lines 392-400
CodeOrResponse(resp, codeMatch) ==
    IF codeMatch.found THEN JStr(codeMatch.text) ELSE JStr(resp)

MixedLastResort(resp, serverCode) ==
    IF ~Truthy(serverCode) THEN CodeOrResponse(resp, CodeLikeMatch(resp))
    ELSE serverCode

\* the field as it stands, without the generated text
KeepField(field, generated) == field

\* lines 403-413
Fallback(field, generated) == IF ~Truthy(field) THEN JStr(generated) ELSE field

MixedFill(resp, result, tagged, sections) ==
    [result EXCEPT
        !.serverCode = MixedLastResort(resp, MixedBlockCode(result.serverCode, tagged)),
        !.readme =
            Fallback(MixedSection(result.readme, Lookup(sections, <<"readme">>),
                                  Lookup(sections, <<"read", "_", "me">>),
                                  Lookup(sections, <<"overview">>)),
                     BasicReadme),
        !.installInstructions =
            Fallback(MixedSection(result.installInstructions,
                                  Lookup(sections, <<"installation">>),
                                  Lookup(sections, <<"setup">>),
                                  Lookup(sections, <<"install">>)),
                     BasicInstallInstructions),
        !.usageExample =
            Fallback(MixedSection(result.usageExample, Lookup(sections, <<"usage">>),
                                  Lookup(sections, <<"example">>),
                                  Lookup(sections, <<"how", "_", "to", "_", "use">>)),
                     BasicUsageExample)]

\* lines 356-368: the fields of jsonData when extractJson gave an object
MixedRecord(resp, data) ==
    [threw |-> FALSE, jsonData |-> data,
     rec |-> MixedFill(resp, IF Truthy(data) THEN RecordOfJson(data) ELSE EmptyResult,
                       TaggedCode(extractCodeBlocks(resp)), extractSections(resp))]

MixedResponseParser_parse(resp) == MixedRecord(resp, extractJson(resp))

----------------------------------------------------------------------------
(* ResponseParserFactory *)

\* response.match(/^\s*\{[\s\S]*\}\s*$/m): with the m flag ^ and $ match at
\* the start and the end of any line
BraceObjectPattern(s) ==
    \E i \in 1..Len(s) : \E j \in (i + 1)..Len(s) :
        /\ s[i] = "{"
        /\ s[j] = "}"
        /\ \E b \in 1..i :
              /\ b = 1 \/ s[b - 1] = "\n"
              /\ \A k \in b..(i - 1) : IsSpace(s[k])
        /\ \E e \in j..Len(s) :
              /\ e = Len(s) \/ s[e + 1] = "\n"
              /\ \A k \in (j + 1)..e : IsSpace(s[k])

autoDetectParser(resp) ==
    IF Includes(resp, <<Fence, "json">>) \/ BraceObjectPattern(resp) THEN "json"
    ELSE IF Includes(resp, <<"##">>) \/ Includes(resp, <<Fence>>) THEN "mixed"
    ELSE "text"

\* the mixed strategy is run when the chosen strategy throws
ParseWithRetry(parser, resp) ==
    IF parser = "json" /\ JsonResponseParser_parse(resp).threw
    THEN MixedResponseParser_parse(resp)
    ELSE CASE parser = "json" -> JsonResponseParser_parse(resp)
           [] parser = "text" -> TextResponseParser_parse(resp)
           [] parser = "mixed" -> MixedResponseParser_parse(resp)

\* parser.parse(response) for the strategy of that name
ParseWith(parser, resp) ==
    CASE parser = "json" -> JsonResponseParser_parse(resp)
      [] parser = "text" -> TextResponseParser_parse(resp)
      [] parser = "mixed" -> MixedResponseParser_parse(resp)

ResponseParserFactory_parse(resp) == ParseWith(autoDetectParser(resp), resp)

----------------------------------------------------------------------------
(* Templates.ts: the registry and renderTemplate.  A template body is the  *)
(* token sequence of its text: a marker is the five tokens { { NAME } },   *)
(* the text between two markers is one token of its own (txt1, txt2, ...), *)
(* cut at its first closing brace when it has one (txt1a } txt1b), or the  *)
(* new line it consists of.  No body has {{ or }} outside its markers.     *)

Mark(name) == <<"{", "{", name, "}", "}">>

\* typescript-basic
TypeScriptBasicBody ==
    <<"txt1a", "}", "txt1b">> \o Mark("DESCRIPTION") \o <<"txt2">>
        \o Mark("SERVER_CODE") \o <<"txt3">> \o Mark("SERVER_NAME")
        \o <<"txt4a", "}", "txt4b">> \o Mark("SERVER_NAME") \o <<"txt5a", "}", "txt5b">>

\* javascript-basic
JavaScriptBasicBody ==
    <<"txt1a", "}", "txt1b">> \o Mark("SERVER_CODE") \o <<"txt2">>
        \o Mark("SERVER_NAME") \o <<"txt3a", "}", "txt3b">> \o Mark("SERVER_NAME")
        \o <<"txt4a", "}", "txt4b">>

\* typescript- and javascript- tools, resources, prompts: list is the marker
\* of the category
ScriptCategoryBody(list) ==
    <<"txt1a", "}", "txt1b">> \o Mark("SERVER_CODE") \o <<"txt2">>
        \o Mark("SERVER_NAME") \o <<"txt3a", "}", "txt3b">> \o Mark(list)
        \o <<"txt4a", "}", "txt4b">> \o Mark("SERVER_NAME") \o <<"txt5a", "}", "txt5b">>

\* typescript-advanced and javascript-advanced
ScriptAdvancedBody ==
    <<"txt1a", "}", "txt1b">> \o Mark("SERVER_CODE") \o <<"txt2">>
        \o Mark("SERVER_NAME") \o <<"txt3a", "}", "txt3b">> \o Mark("TOOLS")
        \o <<"\n">> \o Mark("RESOURCES") \o <<"\n">> \o Mark("PROMPTS")
        \o <<"txt4a", "}", "txt4b">> \o Mark("CUSTOM_CODE") \o <<"txt5">>
        \o Mark("SERVER_NAME") \o <<"txt6a", "}", "txt6b">>

\* what every python template starts with
PythonHead ==
    <<"txt1">> \o Mark("SERVER_NAME") \o <<"txt2">> \o Mark("DESCRIPTION")
        \o <<"txt3">> \o Mark("SERVER_CODE") \o <<"txt4">> \o Mark("SERVER_NAME")

\* python-basic
PythonBasicBody == PythonHead \o <<"txt5a", "}", "txt5b">>

\* python-tools, python-resources, python-prompts
PythonCategoryBody(list) ==
    PythonHead \o <<"txt5">> \o Mark(list) \o <<"txt6a", "}", "txt6b">>

\* python-advanced
PythonAdvancedBody ==
    PythonHead \o <<"txt5">> \o Mark("TOOLS") \o <<"\n">> \o Mark("RESOURCES")
        \o <<"\n">> \o Mark("PROMPTS") \o <<"txt6a", "}", "txt6b">>
        \o Mark("CUSTOM_CODE") \o <<"txt7">>

Template(language, category, body) ==
    [language |-> language, category |-> category, template |-> body]

\* the map initializeTemplates fills, keyed by template name
RegisteredTemplates ==
    ("typescript-basic" :> Template("typescript", "basic", TypeScriptBasicBody))
    @@ ("typescript-tools" :> Template("typescript", "tools", ScriptCategoryBody("TOOLS")))
    @@ ("typescript-resources" :>
            Template("typescript", "resources", ScriptCategoryBody("RESOURCES")))
    @@ ("typescript-prompts" :>
            Template("typescript", "prompts", ScriptCategoryBody("PROMPTS")))
    @@ ("typescript-advanced" :> Template("typescript", "advanced", ScriptAdvancedBody))
    @@ ("javascript-basic" :> Template("javascript", "basic", JavaScriptBasicBody))
    @@ ("javascript-tools" :> Template("javascript", "tools", ScriptCategoryBody("TOOLS")))
    @@ ("javascript-resources" :>
            Template("javascript", "resources", ScriptCategoryBody("RESOURCES")))
    @@ ("javascript-prompts" :>
            Template("javascript", "prompts", ScriptCategoryBody("PROMPTS")))
    @@ ("javascript-advanced" :> Template("javascript", "advanced", ScriptAdvancedBody))
    @@ ("python-basic" :> Template("python", "basic", PythonBasicBody))
    @@ ("python-tools" :> Template("python", "tools", PythonCategoryBody("TOOLS")))
    @@ ("python-resources" :>
            Template("python", "resources", PythonCategoryBody("RESOURCES")))
    @@ ("python-prompts" :> Template("python", "prompts", PythonCategoryBody("PROMPTS")))
    @@ ("python-advanced" :> Template("python", "advanced", PythonAdvancedBody))

\* the end of a match of /{{\s*key\s*}}/ that starts at i: 0 when there is none
KeyClose(s, b) ==
    IF b + 1 <= Len(s) /\ s[b] = "}" /\ s[b + 1] = "}" THEN b + 1 ELSE 0

KeyName(s, a, key) ==
    IF a <= Len(s) /\ s[a] = key THEN KeyClose(s, SkipWs(s, a + 1)) ELSE 0

KeyMatchEnd(s, i, key) ==
    IF i + 1 <= Len(s) /\ s[i] = "{" /\ s[i + 1] = "{"
    THEN KeyName(s, SkipWs(s, i + 2), key)
    ELSE 0

\* what a $ pattern of a replacement string stands for, the match being s[i..e]
DollarPattern(c, s, i, e) ==
    CASE c = "$" -> <<"$">>
      [] c = "&" -> SubSeq(s, i, e)
      [] c = "BACKQUOTE" -> Sub(s, 1, i - 1)
      [] c = "'" -> Sub(s, e + 1, Len(s))

RECURSIVE Expand(_, _, _, _)
\* the text String.prototype.replace puts in for the match s[i..e]: in the
\* replacement string $$, $&, $` and $' are patterns
Expand(replacement, s, i, e) ==
    IF replacement = <<>> THEN <<>>
    ELSE IF /\ Head(replacement) = "$"
            /\ Len(replacement) >= 2
            /\ replacement[2] \in {"$", "&", "BACKQUOTE", "'"}
         THEN DollarPattern(replacement[2], s, i, e)
                  \o Expand(Tail(Tail(replacement)), s, i, e)
    ELSE <<Head(replacement)>> \o Expand(Tail(replacement), s, i, e)

\* where the first match of /{{\s*key\s*}}/ at or after pos starts: 0 for none
FirstKeyMatch(s, pos, key) ==
    IF \E i \in pos..Len(s) : KeyMatchEnd(s, i, key) # 0
    THEN Least({i \in pos..Len(s) : KeyMatchEnd(s, i, key) # 0})
    ELSE 0

RECURSIVE ReplaceAllFrom(_, _, _, _)

ReplaceMatch(s, pos, key, replacement, i, e) ==
    Sub(s, pos, i - 1) \o Expand(replacement, s, i, e)
        \o ReplaceAllFrom(s, e + 1, key, replacement)

ReplaceAt(s, pos, key, replacement, i) ==
    IF i = 0 THEN Sub(s, pos, Len(s))
    ELSE ReplaceMatch(s, pos, key, replacement, i, KeyMatchEnd(s, i, key))

\* s.replace(new RegExp(`{{\\s*${key}\\s*}}`, 'g'), replacement) from pos on
ReplaceAllFrom(s, pos, key, replacement) ==
    ReplaceAt(s, pos, key, replacement, FirstKeyMatch(s, pos, key))

\* String(value || '')
StringOrEmpty(value) == OrElse(value, JStr(<<>>)).v

RECURSIVE SubstituteAll(_, _, _)
\* lines 72-75: the loop over Object.entries(variables), at entry k
SubstituteAll(text, entries, k) ==
    IF k > Len(entries) THEN text
    ELSE SubstituteAll(ReplaceAllFrom(text, 1, entries[k][1],
                                      StringOrEmpty(entries[k][2])),
                       entries, k + 1)

\* the end of a match of /{{\s*[^}]+\s*}}/ that starts at i: 0 when there is
\* none; j is the first closing brace after the opening pair (0: none)
MarkerClose(s, i, j) ==
    IF j > i + 2 /\ j + 1 <= Len(s) /\ s[j + 1] = "}" THEN j + 1 ELSE 0

MarkerEnd(s, i) ==
    IF i + 1 <= Len(s) /\ s[i] = "{" /\ s[i + 1] = "{"
    THEN MarkerClose(s, i, IndexFrom(s, "}", i + 2))
    ELSE 0

FirstMarker(s, pos) ==
    IF \E i \in pos..Len(s) : MarkerEnd(s, i) # 0
    THEN Least({i \in pos..Len(s) : MarkerEnd(s, i) # 0})
    ELSE 0

RECURSIVE MarkersFrom(_, _)

MarkerTo(s, i, e) == <<SubSeq(s, i, e)>> \o MarkersFrom(s, e + 1)

MarkerAt(s, i) == IF i = 0 THEN <<>> ELSE MarkerTo(s, i, MarkerEnd(s, i))

\* rendered.match(/{{\s*[^}]+\s*}}/g): the matches from pos on, <<>> for null
MarkersFrom(s, pos) == MarkerAt(s, FirstMarker(s, pos))

RECURSIVE StripDelimiters(_)

\* b is the first position of m that holds no white space
StripClosing(m, b) ==
    IF b + 1 <= Len(m) /\ m[b] = "}" /\ m[b + 1] = "}"
    THEN StripDelimiters(Sub(m, b + 2, Len(m)))
    ELSE <<Head(m)>> \o StripDelimiters(Tail(m))

\* varMatch.replace(/{{\s*|\s*}}/g, '')
StripDelimiters(m) ==
    IF m = <<>> THEN <<>>
    ELSE IF Len(m) >= 2 /\ m[1] = "{" /\ m[2] = "{"
         THEN StripDelimiters(Sub(m, SkipWs(m, 3), Len(m)))
    ELSE StripClosing(m, SkipWs(m, 1))

\* where pattern first occurs in s: 0 when it does not
FirstOccurrence(s, pattern) ==
    IF Includes(s, pattern)
    THEN Least({i \in 1..(Len(s) - Len(pattern) + 1) :
                   SubSeq(s, i, i + Len(pattern) - 1) = pattern})
    ELSE 0

ReplaceFirstAt(s, pattern, replacement, i) ==
    IF i = 0 THEN s
    ELSE Sub(s, 1, i - 1) \o Expand(replacement, s, i, i + Len(pattern) - 1)
             \o Sub(s, i + Len(pattern), Len(s))

\* s.replace(pattern, replacement) with a string pattern: the first occurrence
ReplaceFirst(s, pattern, replacement) ==
    ReplaceFirstAt(s, pattern, replacement, FirstOccurrence(s, pattern))

\* line 85
OptionalNames ==
    {<<"TOOLS">>, <<"RESOURCES">>, <<"PROMPTS">>, <<"CUSTOM_CODE">>,
     <<"USAGE_EXAMPLE">>}

TodoOpen == "/* TODO: Replace "

TodoClose == " */"

\* line 90: `/* TODO: Replace ${varName} */`
Placeholder(varName) == <<TodoOpen>> \o varName \o <<TodoClose>>

\* lines 83-91
ReplaceUnreplaced(text, varMatch, varName) ==
    IF varName \in OptionalNames THEN ReplaceFirst(text, varMatch, <<>>)
    ELSE ReplaceFirst(text, varMatch, Placeholder(varName))

RECURSIVE CleanUp(_, _, _)
\* lines 82-92: the loop over unreplacedVars, at entry k
CleanUp(text, unreplacedVars, k) ==
    IF k > Len(unreplacedVars) THEN text
    ELSE CleanUp(ReplaceUnreplaced(text, unreplacedVars[k],
                                   StripDelimiters(unreplacedVars[k])),
                 unreplacedVars, k + 1)

\* lines 77-93
CleanUpAll(text) == CleanUp(text, MarkersFrom(text, 1), 1)

\* renderTemplate: threw is TRUE where it throws 'Template not found'
renderTemplate(registry, name, entries) ==
    IF name \notin DOMAIN registry THEN [threw |-> TRUE, rendered |-> <<>>]
    ELSE [threw |-> FALSE,
          rendered |-> CleanUpAll(SubstituteAll(registry[name].template, entries, 1))]

----------------------------------------------------------------------------
(* CodeGenerator.ts: selectTemplate of the three file generators *)

\* the words 'tools', 'resources', 'prompts' that the characters of a token hold
WordsIn(c) ==
    CASE c = "tools" -> {"tools"}
      [] c = "mytools" -> {"tools"}
      [] c = "resources" -> {"resources"}
      [] c = "prompts" -> {"prompts"}
      [] OTHER -> {}

\* parsedResponse.serverCode?.includes(word)
CodeIncludes(serverCode, word) ==
    serverCode.t = "str" /\ \E i \in 1..Len(serverCode.v) : word \in WordsIn(serverCode.v[i])

\* parsedResponse.serverCode?.includes(word) || parsedResponse.additionalFiles?.[word]
Has(parsed, word) ==
    CodeIncludes(parsed.serverCode, word) \/ Truthy(Get(parsed.additionalFiles, <<word>>))

\* the template name `${language}-${category}`
NameOf(language, category) ==
    CHOOSE n \in DOMAIN RegisteredTemplates :
        /\ RegisteredTemplates[n].language = language
        /\ RegisteredTemplates[n].category = category

\* the chain without the branch for all three
CategoryWithoutAdvanced(hasTools, hasResources, hasPrompts) ==
    IF hasTools THEN "tools"
    ELSE IF hasResources THEN "resources"
    ELSE IF hasPrompts THEN "prompts"
    ELSE "basic"

\* the if-chain the three generators share
CategoryOf(hasTools, hasResources, hasPrompts) ==
    IF hasTools /\ hasResources /\ hasPrompts THEN "advanced"
    ELSE IF hasTools THEN "tools"
    ELSE IF hasResources THEN "resources"
    ELSE IF hasPrompts THEN "prompts"
    ELSE "basic"

\* selectTemplate of the generator of opts.language
selectTemplate(opts, parsed) ==
    NameOf(opts.language,
           CategoryOf(Has(parsed, "tools"), Has(parsed, "resources"),
                      Has(parsed, "prompts")))

----------------------------------------------------------------------------
(* CodeGenerator.ts: the three file generators.  A structure is the        *)
(* directories and the files, a file being <<path, content>> with the path *)
(* a text and the content a value (a string for every generated file).     *)
(* Fixed passages of the generated texts are single tokens.                *)

\* the variables handed to renderTemplate
TemplateVariablesOf(opts, parsed) ==
    << <<"SERVER_NAME", JStr(opts.serverName)>>,
       <<"DESCRIPTION", JStr(opts.description)>>,
       <<"TRANSPORT", JStr(<<opts.transport>>)>>,
       <<"SERVER_CODE", OrElse(parsed.serverCode, JStr(<<>>))>>,
       <<"TOOLS", OrElse(Get(parsed.additionalFiles, <<"tools">>), JStr(<<>>))>>,
       <<"RESOURCES", OrElse(Get(parsed.additionalFiles, <<"resources">>), JStr(<<>>))>>,
       <<"PROMPTS", OrElse(Get(parsed.additionalFiles, <<"prompts">>), JStr(<<>>))>>,
       <<"CUSTOM_CODE", OrElse(Get(parsed.additionalFiles, <<"customCode">>), JStr(<<>>))>> >>

\* the file the generator of a language writes the server code to
ServerFileOf(language) ==
    CASE language = "javascript" -> <<"server.js">>
      [] language = "python" -> <<"server.py">>
      [] OTHER -> <<"server.ts">>

\* the entry point named by the package.json of a language
MainOf(language) ==
    IF language = "typescript" THEN <<"dist/", "server.js">> ELSE <<"server.js">>

\* JSON.stringify of the package description (indentation left out)
generatePackageJson(opts) ==
    Stringify(JObj(<< <<<<"name">>, JStr(opts.serverName)>>,
                      <<<<"version">>, JStr(<<"1.0.0">>)>>,
                      <<<<"description">>, JStr(opts.description)>>,
                      <<<<"main">>, JStr(MainOf(opts.language))>>,
                      <<<<"type">>, JStr(<<"module">>)>>,
                      <<<<"license">>, JStr(<<"MIT">>)>> >>))

generateTypeScriptConfig == <<"{", "compilerOptions", "}">>

generateRequirements == <<"mcp>=1.0.0", "\n", "asyncio", "\n", "aiohttp", "\n", "pydantic">>

generatePythonGitignore == <<"__pycache__/", "\n", ".venv", "\n">>

\* the install and start commands of the README of a language
ReadmeCommands(language) ==
    CASE language = "typescript" -> <<"npm install", "\n", "npm run build">>
      [] language = "javascript" -> <<"npm install">>
      [] OTHER -> <<"pip install -r requirements.txt">>

\* the optional Usage Example section of the README
UsageSection(usageExample) ==
    IF Truthy(usageExample)
    THEN <<"##", " ", "Usage", " ", "Example", "\n", "\n">> \o usageExample.v \o <<"\n">>
    ELSE <<>>

generateReadme(opts, parsed) ==
    <<"#", " ">> \o opts.serverName \o <<"\n", "\n">> \o opts.description
    \o <<"\n", "\n", "##", " ", "Installation", "\n", "\n", Fence, "bash", "\n">>
    \o ReadmeCommands(opts.language)
    \o <<"\n", Fence, "\n", "\n", "##", " ", "Configuration", "\n", "\n", Fence, "json",
         "\n", "{", "\"", "mcpServers", "\"", ":", "{", "\"">>
    \o opts.serverName
    \o <<"\"", ":", "{", "\"", "args", "\"", ":", "[", "\"">>
    \o (IF opts.language = "typescript" THEN <<"dist/">> ELSE <<>>)
    \o (IF opts.language = "python" THEN <<"server.py">> ELSE <<"server.js">>)
    \o <<"\"", "]", "}", "}", "}", "\n", Fence, "\n", "\n">>
    \o UsageSection(parsed.usageExample)
    \o <<"\n", "##", " ", "License", "\n", "\n", "MIT">>

\* the server code used when the registry has no template of the name
generateBasicServerCode(opts, parsed) ==
    <<"import", " ", "Server", "\n", "/**", " ">> \o opts.description \o <<" ", "*/", "\n">>
    \o OrElse(parsed.serverCode, JStr(<<"// Server implementation code goes here">>)).v
    \o <<"\n", "name", ":", " ", "'">> \o opts.serverName \o <<"'", "\n">>

\* what the rendering of the selected template gave, as the server file
ServerCodeOf(opts, parsed, r) ==
    IF r.threw THEN generateBasicServerCode(opts, parsed) ELSE r.rendered

\* the files a generator sets before it merges additionalFiles
GeneratedFiles(opts, parsed) ==
    << <<ServerFileOf(opts.language),
         JStr(ServerCodeOf(opts, parsed,
                           renderTemplate(RegisteredTemplates,
                                          selectTemplate(opts, parsed),
                                          TemplateVariablesOf(opts, parsed))))>> >>
    \o (IF opts.language = "python"
        THEN << <<<<"requirements.txt">>, JStr(generateRequirements)>> >>
        ELSE << <<<<"package.json">>, JStr(generatePackageJson(opts))>> >>)
    \o (IF opts.language = "typescript"
        THEN << <<<<"tsconfig.json">>, JStr(generateTypeScriptConfig)>> >>
        ELSE <<>>)
    \o << <<<<"README.md">>, JStr(generateReadme(opts, parsed))>> >>
    \o (IF opts.language = "python"
        THEN << <<<<".gitignore">>, JStr(generatePythonGitignore)>> >>
        ELSE <<>>)

\* Object.assign(files, source): the members of source from the i-th on
RECURSIVE AssignFrom(_, _, _)
AssignFrom(files, members, i) ==
    IF i > Len(members) THEN files
    ELSE AssignFrom(Put(files, members[i][1], members[i][2]), members, i + 1)

\* the merge with the generated files written over the additional ones
MergeUnder(files, additionalFiles) ==
    IF Truthy(additionalFiles) /\ additionalFiles.t = "obj"
    THEN AssignFrom(additionalFiles.m, files, 1)
    ELSE files

\* if (parsedResponse.additionalFiles) Object.assign(files, it), for an
\* additionalFiles that is an object, null or undefined
MergeAdditional(files, additionalFiles) ==
    IF Truthy(additionalFiles) /\ additionalFiles.t = "obj"
    THEN AssignFrom(files, additionalFiles.m, 1)
    ELSE files

DirectoriesOf(language) ==
    IF language = "typescript" THEN <<"src", "dist">> ELSE <<"src">>

\* the render of a generator without a fallback throws for an unregistered
\* template
GeneratorThrows(opts, name) ==
    opts.language # "typescript" /\ name \notin DOMAIN RegisteredTemplates

generateStructure(opts, parsed) ==
    [made |-> TRUE,
     threw |-> GeneratorThrows(opts, selectTemplate(opts, parsed)),
     directories |-> DirectoriesOf(opts.language),
     files |-> MergeAdditional(GeneratedFiles(opts, parsed), parsed.additionalFiles)]
----------------------------------------------------------------------------
(* The responses the parsers are run on *)

MaxNoise == 2     \* stray braces on each side of an embedded object
MaxBlank == 3     \* length of a white-space-only response
MaxRaw == 4       \* length of an unstructured response

RECURSIVE Repeat(_, _)
Repeat(c, n) == IF n = 0 THEN <<>> ELSE <<c>> \o Repeat(c, n - 1)

\* all sequences over alphabet of length 0..n
RECURSIVE SeqsUpTo(_, _)
SeqsUpTo(alphabet, n) ==
    IF n = 0 THEN {<<>>}
    ELSE LET shorter == SeqsUpTo(alphabet, n - 1) IN
         shorter \cup {Append(s, c) : s \in {x \in shorter : Len(x) = n - 1},
                                      c \in alphabet}

\* unbalanced stray braces: closing braces, then opening braces
StrayBraces ==
    {Repeat("}", a) \o Repeat("{", b) :
        a \in 0..MaxNoise, b \in 0..MaxNoise} \ {s \in
            {Repeat("}", a) \o Repeat("{", b) : a \in 0..MaxNoise, b \in 0..MaxNoise} :
                Len(s) > MaxNoise}

\* contents of a serverCode field
CodeTexts ==
    {<<"x">>, <<"{", "x", "}">>, <<"}">>, <<"{">>, <<Fence>>, <<Fence, "}">>,
     <<"x", "\"", "y">>, <<"x", "\n", "y">>, <<"\\", "n">>, <<" ">>, <<>>}

\* an object with the members whose value is not Undefined
MakeObject(pairs) ==
    JObj(SelectSeq(pairs, LAMBDA m : m[2].t # "undefined"))

DependencyValues ==
    {Undefined, JObj(<< <<<<"x">>, JStr(<<"1">>)>> >>), JNull, JArr(<<>>),
     JArr(<<JStr(<<"x">>)>>), JNum(<<"1">>)}

ReadmeValues == {Undefined, JStr(<<"R">>), JNull, JNum(<<"1">>)}

\* an object that sets every field of the record
FullObject ==
    JObj(<< <<<<"serverCode">>, JStr(<<"x">>)>>,
            <<<<"packageJson">>, JStr(<<"{", "}">>)>>,
            <<<<"readme">>, JStr(<<"R">>)>>,
            <<<<"installInstructions">>, JStr(<<"x", " ", "y">>)>>,
            <<<<"usageExample">>, JStr(<<"y">>)>>,
            <<<<"dependencies">>, JObj(<< <<<<"x">>, JStr(<<"1">>)>> >>)>>,
            <<<<"devDependencies">>, JObj(<<>>)>>,
            <<<<"scripts">>, JObj(<< <<<<"y">>, JStr(<<"x">>)>> >>)>>,
            <<<<"additionalFiles">>, JObj(<< <<<<"x">>, JStr(<<"y">>)>> >>)>> >>)

FencedObjects ==
    {MakeObject(<< <<<<"serverCode">>, sc>>, <<<<"readme">>, rd>>,
                   <<<<"dependencies">>, dep>> >>) :
        sc \in {JStr(c) : c \in CodeTexts} \cup {Undefined, JNum(<<"1">>)},
        rd \in ReadmeValues,
        dep \in DependencyValues}
    \cup {FullObject, JArr(<<JStr(<<"x">>)>>)}

EmbeddedObjects ==
    {FullObject,
     JObj(<< <<<<"serverCode">>, JStr(<<"x">>)>> >>),
     JObj(<< <<<<"readme">>, JStr(<<"R">>)>> >>),
     JObj(<< <<<<"serverCode">>, JStr(<<"x">>)>>,
             <<<<"scripts">>, JObj(<< <<<<"y">>, JStr(<<"x">>)>> >>)>> >>)}

RawAlphabet == {"{", "}", "\n", "x", Fence, "json", "##"}

\* responses with headers, code blocks and code-like text
ProseTexts ==
    {<<"##", " ", "R", "\n", "x">>,
     <<"##", " ", "x", " ", "y", "\n", "##", " ", "R">>,
     <<"##", " ", "\n">>,
     <<"##", " ", "Server", " ", "Code", "\n", Fence, "typescript", "\n", "x", "\n",
       Fence, "\n", "##", " ", "R", "\n", "y">>,
     <<"##", " ", "Server", " ", "Code", "\n", "x">>,
     <<Fence, "python", "\n", "x", "\n", Fence>>,
     <<Fence, "\n", "x", Fence, "y", Fence, "bash", " ", "y", Fence>>,
     <<"x", " ", "import", " ", "PAD50">>,
     <<"import", " ", "x">>,
     <<"x", " ", "{", "\"", "readme", "\"", ":", "\"", "R", "\"", "}", " ",
       Fence, "javascript", "\n", "y", Fence>>,
     <<"{", "x", "}", " ">> \o Stringify(JObj(<< <<<<"serverCode">>, JStr(<<"x">>)>> >>)),
     Stringify(JObj(<< <<<<"readme">>, JNum(<<"1">>)>> >>)) \o <<"\n">>
        \o Stringify(JObj(<< <<<<"serverCode">>, JStr(<<"y">>)>> >>)),
     <<Fence, "json", "\n", "{", "x", "}", "\n", Fence, "\n">>
        \o Stringify(JObj(<< <<<<"readme">>, JStr(<<"R">>)>> >>)),
     <<"##", " ", "Installation", "\n", "x", " ", "y">>,
     <<"##", " ", "Setup", "\n", "x", "\n", "##", " ", "Usage", "\n", "y", "\n",
       "##", " ", "README", "\n", "R">>,
     <<"##", " ", "Overview", "\n", "R", "\n", "##", " ", "Example", "\n", "y">>,
     <<"##", " ", "Server", " ", "Code", "\n", Fence, "python", "\n", "x", "\n", Fence,
       "\n", "##", " ", "R", "\n", Fence, "typescript", "\n", "y", "\n", Fence>>,
     <<"x", "\n", Fence, "\n", "y", "\n", Fence>>}

\* origin of a response: the family and the parts it is put together from
Origins ==
    {[family |-> "fenced", pre |-> pre, obj |-> obj, post |-> post] :
        pre \in {<<>>, <<"x", "\n">>}, obj \in FencedObjects,
        post \in {<<>>, <<"\n", "x">>}}
    \cup
    {[family |-> "embedded", pre |-> pre, obj |-> obj, post |-> post] :
        pre \in StrayBraces, obj \in EmbeddedObjects, post \in StrayBraces}
    \cup
    {[family |-> "blank", pre |-> s, obj |-> Undefined, post |-> <<>>] :
        s \in SeqsUpTo({" ", "\n"}, MaxBlank)}
    \cup
    {[family |-> "raw", pre |-> s, obj |-> Undefined, post |-> <<>>] :
        s \in SeqsUpTo(RawAlphabet, MaxRaw) \ {<<>>}}
    \cup
    {[family |-> "prose", pre |-> s, obj |-> Undefined, post |-> <<>>] :
        s \in ProseTexts}

\* the response text of an origin
TextOf(o) ==
    CASE o.family = "fenced" ->
            o.pre \o <<Fence, "json", "\n">> \o Stringify(o.obj) \o <<"\n", Fence>>
                  \o o.post
      [] o.family = "embedded" ->
            o.pre \o <<" ">> \o Stringify(o.obj) \o <<" ">> \o o.post
      [] OTHER -> o.pre

----------------------------------------------------------------------------
(* The parsing specification: one response, one strategy run on it *)

\* no response was handed to a parser
ParseIdle ==
    /\ origin = [family |-> "none", pre |-> <<>>, obj |-> Undefined, post |-> <<>>]
    /\ response = <<>>
    /\ parserUsed = "none"
    /\ caller = "none"
    /\ outcome = "none"
    /\ jsonData = JNull
    /\ record = NoRecord

\* the registry as its constructor leaves it, and no call of renderTemplate
RenderIdle ==
    /\ templates = RegisteredTemplates
    /\ templateName = "none"
    /\ variables = <<>>
    /\ renderCalls = 0
    /\ renderOutcome = "none"
    /\ rendered = <<>>
    /\ firstRendered = <<>>

\* no call of selectTemplate
SelectIdle ==
    /\ options = [language |-> "none"]
    /\ parsedResponse = NoRecord
    /\ selected = "none"

\* no call of generateStructure
StructIdle ==
    /\ genOptions =
          [description |-> <<>>, language |-> "none", transport |-> "none",
           outputPath |-> <<>>, serverName |-> <<>>]
    /\ genParsed = NoRecord
    /\ structure = [made |-> FALSE, threw |-> FALSE, directories |-> <<>>, files |-> <<>>]

\* no call of a name function
NameIdle ==
    /\ rawName = <<>>
    /\ nameCall = "none"
    /\ nameOnce = <<>>
    /\ nameTwice = <<>>

\* no call of generateServerSpecification
AiIdle ==
    /\ aiReply = [failed |-> FALSE, isError |-> FALSE, message |-> <<>>, content |-> Undefined]
    /\ aiCalls = 0
    /\ aiRequests = 0
    /\ aiOutcome = "none"
    /\ aiResult = <<>>

\* no run of execute or generateProject
CreateIdle ==
    /\ entry = "none"
    /\ stage = "none"
    /\ projOptions =
          [description |-> <<>>, language |-> "none", transport |-> "none",
           outputPath |-> <<>>, serverName |-> <<>>]
    /\ writable = TRUE
    /\ source = [response |-> <<>>, usedFallback |-> FALSE, cause |-> "none"]
    /\ projParsed = [jsonData |-> JNull, threw |-> FALSE, rec |-> NoRecord]
    /\ projStructure = [made |-> FALSE, threw |-> FALSE, directories |-> <<>>, files |-> <<>>]
    /\ onDisk = [dirs |-> {}, files |-> <<>>]
    /\ tried = [dirs |-> {}, files |-> {}]
    /\ refused = [dirs |-> {}, files |-> {}]
    /\ passed = {}
    /\ thrown = <<>>
    /\ statuses = <<>>
    /\ notifications = <<>>
    /\ generating = FALSE
    /\ seen = 0
    /\ posted = 0

\* no call of the functions of ConfigurationManager
KeyIdle ==
    /\ secret = <<>>
    /\ legacy = <<>>
    /\ keyCall = "none"
    /\ keyArg = <<>>
    /\ keyReturned = <<>>
    /\ keyCalls = 0
    /\ migrated = FALSE

\* no execution of resolveTargetDirectory
TargetIdle ==
    /\ folder = {}
    /\ runAt = <<>>
    /\ runDir = <<>>
    /\ folderAt = <<>>
    /\ filled = {}

LaterIdle == StructIdle /\ NameIdle /\ AiIdle /\ CreateIdle /\ KeyIdle /\ TargetIdle

ParseInit ==
    /\ origin \in Origins
    /\ response = TextOf(origin)
    /\ parserUsed = "none"
    /\ caller = "none"
    /\ outcome = "none"
    /\ jsonData = JNull
    /\ record = NoRecord
    /\ RenderIdle
    /\ SelectIdle
    /\ LaterIdle

\* the state after the parse of that strategy returned r
Parsed(parser, by, r) ==
    /\ parserUsed = "none"
    /\ parserUsed' = parser
    /\ caller' = by
    /\ outcome' = IF r.threw THEN "throw" ELSE "ok"
    /\ jsonData' = r.jsonData
    /\ record' = r.rec
    /\ UNCHANGED <<response, origin, renderVars, selectVars, laterVars>>

JsonParse == Parsed("json", "direct", JsonResponseParser_parse(response))

MarkdownParse == Parsed("markdown", "direct", MarkdownResponseParser_parse(response))

TextParse == Parsed("text", "direct", TextResponseParser_parse(response))

MixedParse == Parsed("mixed", "direct", MixedResponseParser_parse(response))

\* ResponseParserFactory.parse(response)
FactoryParse ==
    Parsed(autoDetectParser(response), "factory", ResponseParserFactory_parse(response))

ParseNext == JsonParse \/ MarkdownParse \/ TextParse \/ MixedParse \/ FactoryParse

SpecParse == ParseInit /\ [][ParseNext]_vars

----------------------------------------------------------------------------
(* The rendering specification: one template name and one variable set,    *)
(* renderTemplate called with them up to MaxCalls times                    *)

MaxCalls == 2     \* calls of renderTemplate with the same arguments
MaxMissing == 2   \* variables left out of the variable set

\* the keys of TemplateVariables in the order the generators write them
Keys ==
    <<"SERVER_NAME", "DESCRIPTION", "TRANSPORT", "SERVER_CODE", "TOOLS",
      "RESOURCES", "PROMPTS", "CUSTOM_CODE">>

\* an ordinary value for each key
PlainValues == <<"v1", "v2", "v3", "v4", "v5", "v6", "v7", "v8">>

\* values with $ sequences, with braces, empty and undefined
SpecialValues ==
    {JStr(<<"$", "&">>), JStr(<<"$", "$">>), JStr(<<"$", "'">>),
     JStr(<<"$", "BACKQUOTE">>), JStr(<<"{", "{">>), JStr(<<"}", "}">>),
     JStr(<<"{", "{", "v", "}", "}">>), JStr(<<"{", "{", "$", "$", "&", "}", "}">>),
     JStr(<<"{", "{", " ", "TOOLS", "\n", "}", "}">>), JStr(<<>>), Undefined}

\* the keys that are given a special value
SpecialKeys == {"SERVER_NAME", "SERVER_CODE", "TOOLS"}

\* the variable set without the keys of missing, key given the value special
VariablesOf(missing, key, special) ==
    SelectSeq([i \in 1..Len(Keys) |->
                  <<Keys[i], IF Keys[i] = key THEN special ELSE JStr(<<PlainValues[i]>>)>>],
              LAMBDA e : e[1] \notin missing)

KeySet == {Keys[i] : i \in 1..Len(Keys)}

RenderInit ==
    /\ templates = RegisteredTemplates
    /\ templateName \in DOMAIN RegisteredTemplates \cup {"rust-basic"}
    /\ \E missing \in {m \in SUBSET KeySet : Cardinality(m) <= MaxMissing} :
          \/ variables = VariablesOf(missing, "none", Undefined)
          \/ \E key \in SpecialKeys, special \in SpecialValues :
                variables = VariablesOf(missing, key, special)
    /\ renderCalls = 0
    /\ renderOutcome = "none"
    /\ rendered = <<>>
    /\ firstRendered = <<>>
    /\ ParseIdle
    /\ SelectIdle
    /\ LaterIdle

\* the state after renderTemplate returned r; it does not write the registry
Rendered(r) ==
    /\ renderCalls < MaxCalls
    /\ renderCalls' = renderCalls + 1
    /\ renderOutcome' = IF r.threw THEN "throw" ELSE "ok"
    /\ rendered' = r.rendered
    /\ firstRendered' = IF renderCalls = 0 THEN r.rendered ELSE firstRendered
    /\ UNCHANGED <<templates, templateName, variables, parseVars, selectVars,
                   laterVars>>

Render == Rendered(renderTemplate(templates, templateName, variables))

RenderNext == Render

SpecRender == RenderInit /\ [][RenderNext]_vars

----------------------------------------------------------------------------
(* The selection specification: one language and one parsed response       *)

MaxCodeWords == 2  \* words of the serverCode handed to selectTemplate

Languages == {"typescript", "javascript", "python"}

CodeWordsOf == {"tools", "mytools", "resources", "prompts", "Tools", "x"}

\* what additionalFiles may hold under the names tools, resources, prompts
EntryValues == {Undefined, JStr(<<"x">>), JStr(<<>>)}

\* entries under other names
OtherEntries ==
    {<<>>,
     << <<<<"x">>, JStr(<<"tools">>)>> >>,
     << <<<<"src/", "tools", ".ts">>, JStr(<<"x">>)>> >>,
     << <<<<"x">>, JStr(<<"tools", " ", "resources", " ", "prompts">>)>> >>}

AdditionalFilesValues ==
    {MakeObject(<< <<<<"tools">>, a>>, <<<<"resources">>, b>>, <<<<"prompts">>, c>> >>
                \o other) :
        a \in EntryValues, b \in EntryValues, c \in EntryValues, other \in OtherEntries}
    \cup {Undefined}

SelectInit ==
    /\ options \in {[language |-> l] : l \in Languages}
    /\ parsedResponse \in
          {[NoRecord EXCEPT !.serverCode = code, !.additionalFiles = files] :
              code \in {JStr(s) : s \in SeqsUpTo(CodeWordsOf, MaxCodeWords)},
              files \in AdditionalFilesValues}
    /\ selected = "none"
    /\ ParseIdle
    /\ RenderIdle
    /\ LaterIdle

\* the state after selectTemplate returned name
Selected(name) ==
    /\ selected = "none"
    /\ selected' = name
    /\ UNCHANGED <<options, parsedResponse, parseVars, renderVars, laterVars>>

Select == Selected(selectTemplate(options, parsedResponse))

SelectNext == Select

SpecSelect == SelectInit /\ [][SelectNext]_vars

----------------------------------------------------------------------------
(* Properties of the parsing specification *)

\* C1: an object embedded among stray unbalanced braces, in a text without
\* a json fence, is what JsonResponseParser.parse returns the record of.
C1_EmbeddedObjectRecovered ==
    (origin.family = "embedded" /\ parserUsed = "json" /\ caller = "direct")
        => (outcome = "ok" /\ record = RecordOfJson(origin.obj))

\* C2: for a schema-valid object wrapped in a json fence,
\* ResponseParserFactory.parse returns the record with the object's fields,
\* whatever the fields contain.
C2_FencedRoundTrip ==
    (origin.family = "fenced" /\ validateJsonStructure(origin.obj)
        /\ caller = "factory")
        => (outcome = "ok" /\ record = RecordOfJson(origin.obj))

\* C3: on an empty or white-space-only response every strategy fails
\* instead of returning a record.
C3_BlankInputFails ==
    (Trim(response) = <<>> /\ caller = "direct") => outcome = "throw"

\* the whole text, without the white space around it, is brace-delimited
WholeTextBraced(s) ==
    /\ Len(Trim(s)) >= 2
    /\ Head(Trim(s)) = "{"
    /\ Trim(s)[Len(Trim(s))] = "}"

\* the strategy the stated priority selects
StatedStrategy(s) ==
    IF Includes(s, <<Fence, "json">>) \/ WholeTextBraced(s) THEN "json"
    ELSE IF Includes(s, <<"##">>) \/ Includes(s, <<Fence>>) THEN "mixed"
    ELSE "text"

\* C4: autoDetectParser selects the JSON strategy exactly when the text has
\* a json fence or is, as a whole, a brace-delimited object; otherwise the
\* mixed strategy exactly when it has ## or a fence; otherwise plain text.
C4_DetectionPriority ==
    caller = "factory" => parserUsed = StatedStrategy(response)

\* the schema-validity the objects are required to have
SchemaValid(data) ==
    /\ data.t = "obj"
    /\ \/ /\ Get(data, <<"serverCode">>).t = "str"
          /\ Len(Trim(Get(data, <<"serverCode">>).v)) > 0
       \/ \E f \in StringFields \ {<<"serverCode">>} : Truthy(Get(data, f))
    /\ \A f \in StringFields : Get(data, f).t \in {"undefined", "str"}
    /\ \A f \in MappingFields : Get(data, f).t \in {"undefined", "obj"}

\* C5: every object extractJson returns is schema-valid: a populated textual
\* field, textual fields that are strings, and dependencies, devDependencies
\* and scripts that are key-value mappings.
C5_OnlySchemaValidAccepted ==
    parserUsed \in {"json", "mixed"} => (jsonData = JNull \/ SchemaValid(jsonData))

\* C6: on a non-empty text MixedResponseParser.parse returns a record whose
\* serverCode, readme, installInstructions and usageExample are non-empty
\* strings; without a header the fields the object does not supply hold the
\* generated boilerplate, and serverCode is the whole text when there is no
\* object, no fence and no code-like text.
C6_MixedNeverFails ==
    (parserUsed = "mixed" /\ Len(response) > 0)
        => /\ outcome = "ok"
           /\ \A f \in {"serverCode", "readme", "installInstructions", "usageExample"} :
                 record[f].t = "str" /\ record[f].v # <<>>
           /\ (~Includes(response, <<"##">>) /\ ~Truthy(Get(jsonData, <<"readme">>)))
                 => record.readme = JStr(BasicReadme)
           /\ (~Includes(response, <<"##">>)
                 /\ ~Truthy(Get(jsonData, <<"installInstructions">>)))
                 => record.installInstructions = JStr(BasicInstallInstructions)
           /\ (~Includes(response, <<"##">>)
                 /\ ~Truthy(Get(jsonData, <<"usageExample">>)))
                 => record.usageExample = JStr(BasicUsageExample)
           /\ (jsonData = JNull /\ ~Includes(response, <<Fence>>)
                 /\ ~CodeLikeMatch(response).found)
                 => record.serverCode = JStr(response)

\* C6: a text of braces and words, for which every field is a fallback
C6_Witness ==
    /\ parserUsed = "mixed"
    /\ origin.family = "raw"
    /\ jsonData = JNull
    /\ record.serverCode = JStr(response)
    /\ record.readme = JStr(BasicReadme)

----------------------------------------------------------------------------
(* Properties of the rendering specification *)

\* the value the variable set gives key: <<>> when it gives none
Supplied(entries, key) == \E i \in 1..Len(entries) : entries[i][1] = key

ValueOf(entries, key) ==
    StringOrEmpty(entries[CHOOSE i \in 1..Len(entries) : entries[i][1] = key][2])

\* what stands for the marker of key: the supplied value as it is, nothing
\* for a missing known-optional key, the placeholder comment for another
StandsFor(entries, key) ==
    IF Supplied(entries, key) THEN ValueOf(entries, key)
    ELSE IF <<key>> \in OptionalNames THEN <<>>
    ELSE Placeholder(<<key>>)

RECURSIVE VerbatimFrom(_, _, _)
\* the body from position i on with every marker replaced by what stands for it
VerbatimFrom(body, i, entries) ==
    IF i > Len(body) THEN <<>>
    ELSE IF body[i] = "{"
         THEN StandsFor(entries, body[i + 2]) \o VerbatimFrom(body, i + 5, entries)
    ELSE <<body[i]>> \o VerbatimFrom(body, i + 1, entries)

\* the names of the markers of a body
MarkerNames(body) == {key \in KeySet : Includes(body, Mark(key))}

\* C7: renderTemplate puts every supplied value verbatim at every marker of
\* its name, whatever the value holds.
C7_ValuesVerbatim ==
    (renderCalls >= 1 /\ templateName \in DOMAIN templates)
        => rendered = VerbatimFrom(templates[templateName].template, 1, variables)

\* C8: two calls with the same registered name and the same fully supplied
\* variables return the same text, leave the registry as it was, and the
\* text has no {{...}} marker left.
C8_DeterministicAndComplete ==
    (/\ renderCalls >= 2
     /\ templateName \in DOMAIN templates
     /\ \A key \in MarkerNames(templates[templateName].template) :
           Supplied(variables, key))
        => /\ rendered = firstRendered
           /\ templates = RegisteredTemplates
           /\ MarkersFrom(rendered, 1) = <<>>

\* a placeholder comment of the text holds key
InPlaceholder(text, key) ==
    \E i \in 1..Len(text) : \E j \in (i + 1)..Len(text) : \E k \in (j + 1)..Len(text) :
        /\ text[i] = TodoOpen
        /\ text[j] = key
        /\ text[k] = TodoClose
        /\ \A n \in i..(k - 1) : text[n] # TodoClose

\* C9: renderTemplate throws exactly when the name is not registered; of a
\* missing known-optional variable nothing is left in the text, and for any
\* other missing variable the text has a placeholder comment with its name
\* and no marker of it.
C9_MissingVariables ==
    renderCalls >= 1
        => /\ renderOutcome = "throw" <=> templateName \notin DOMAIN templates
           /\ templateName \in DOMAIN templates
                 => \A key \in MarkerNames(templates[templateName].template) :
                       ~Supplied(variables, key)
                          => IF <<key>> \in OptionalNames
                             THEN \A i \in 1..Len(rendered) : rendered[i] # key
                             ELSE /\ InPlaceholder(rendered, key)
                                  /\ ~Includes(rendered, Mark(key))

----------------------------------------------------------------------------
(* Properties of the selection specification *)

\* word occurs in a text of the parsed response: in serverCode, or in the
\* name or the content of an entry of additionalFiles
Occurs(parsed, word) ==
    \/ CodeIncludes(parsed.serverCode, word)
    \/ \E i \in 1..Len(parsed.additionalFiles.m) :
          \/ \E n \in 1..Len(parsed.additionalFiles.m[i][1]) :
                word \in WordsIn(parsed.additionalFiles.m[i][1][n])
          \/ CodeIncludes(parsed.additionalFiles.m[i][2], word)

CategoryWords == {"tools", "resources", "prompts"}

\* C10 as stated: the category follows from which of the three words occur
\* as substrings in serverCode or in additionalFiles.
C10_SubstringSelection ==
    selected # "none"
        => /\ (\A w \in CategoryWords : Occurs(parsedResponse, w))
                 => selected = NameOf(options.language, "advanced")
           /\ \A w \in CategoryWords :
                 (\A x \in CategoryWords : Occurs(parsedResponse, x) <=> x = w)
                    => selected = NameOf(options.language, w)
           /\ (\A w \in CategoryWords : ~Occurs(parsedResponse, w))
                 => selected = NameOf(options.language, "basic")

\* word is present: a substring of serverCode, or additionalFiles has a
\* non-empty entry whose name is exactly the word
Present(parsed, word) ==
    \/ CodeIncludes(parsed.serverCode, word)
    \/ \E i \in 1..Len(parsed.additionalFiles.m) :
          /\ parsed.additionalFiles.m[i][1] = <<word>>
          /\ Truthy(parsed.additionalFiles.m[i][2])

\* C10: with presence read as above, all three words present select the
\* advanced template of the language, exactly one present selects the
\* template of its category, none present selects the basic template, and
\* two present select the first of tools, resources, prompts.
C10_PresenceSelection ==
    selected # "none"
        => /\ (\A w \in CategoryWords : Present(parsedResponse, w))
                 => selected = NameOf(options.language, "advanced")
           /\ \A w \in CategoryWords :
                 (\A x \in CategoryWords : Present(parsedResponse, x) <=> x = w)
                    => selected = NameOf(options.language, w)
           /\ (\A w \in CategoryWords : ~Present(parsedResponse, w))
                 => selected = NameOf(options.language, "basic")
           /\ (Present(parsedResponse, "tools")
                 /\ \E w \in CategoryWords : ~Present(parsedResponse, w))
                 => selected = NameOf(options.language, "tools")
           /\ (~Present(parsedResponse, "tools") /\ Present(parsedResponse, "resources"))
                 => selected = NameOf(options.language, "resources")

\* C10: all three words are present, one of them only as an entry of
\* additionalFiles, and the advanced template of python is selected
C10_Witness ==
    /\ selected = "python-advanced"
    /\ ~CodeIncludes(parsedResponse.serverCode, "prompts")
    /\ CodeIncludes(parsedResponse.serverCode, "tools")
    /\ Truthy(Get(parsedResponse.additionalFiles, <<"prompts">>))
----------------------------------------------------------------------------
(* CreateServerCommand: server names.  A name is a sequence of characters, *)
(* each a one-character string.                                            *)

LowerLetters ==
    {"a", "b", "c", "d", "e", "f", "g", "h", "i", "j", "k", "l", "m", "n", "o", "p",
     "q", "r", "s", "t", "u", "v", "w", "x", "y", "z"}

DigitChars == {"0", "1", "2", "3", "4", "5", "6", "7", "8", "9"}

\* [a-z0-9-]
SlugChars == LowerLetters \cup DigitChars \cup {"-"}

Range(s) == {s[i] : i \in 1..Len(s)}

\* String.prototype.toLowerCase, one character
LowerChar(c) ==
    CASE c = "W" -> "w"
      [] c = "T" -> "t"
      [] c = "S" -> "s"
      [] c = "A" -> "a"
      [] OTHER -> c

toLowerCase(value) == [i \in 1..Len(value) |-> LowerChar(value[i])]

\* the end of the run of characters of a set that starts at i
RECURSIVE RunEnd(_, _, _)
RunEnd(s, i, set) ==
    IF i < Len(s) /\ s[i + 1] \in set THEN RunEnd(s, i + 1, set) ELSE i

\* the start of the run of characters of a set that ends at i
RECURSIVE RunStart(_, _, _)
RunStart(s, i, set) ==
    IF i > 1 /\ s[i - 1] \in set THEN RunStart(s, i - 1, set) ELSE i

\* .replace(/[^a-z0-9-]+/g, '-') from the i-th character on
RECURSIVE ReplaceDisallowed(_, _)
ReplaceDisallowed(s, i) ==
    IF i > Len(s) THEN <<>>
    ELSE IF s[i] \in SlugChars THEN <<s[i]>> \o ReplaceDisallowed(s, i + 1)
    ELSE <<"-">> \o ReplaceDisallowed(s, RunEnd(s, i, Range(s) \ SlugChars) + 1)

\* .replace(/^-+|-+$/g, ''): without the leading run of dashes, then, of what
\* is left, without the trailing run
StripTrailing(s) ==
    IF s # <<>> /\ s[Len(s)] = "-" THEN Sub(s, 1, RunStart(s, Len(s), {"-"}) - 1) ELSE s

StripDashes(s) ==
    StripTrailing(IF s # <<>> /\ s[1] = "-"
                  THEN Sub(s, RunEnd(s, 1, {"-"}) + 1, Len(s))
                  ELSE s)

\* .replace(/-{2,}/g, '-') from the i-th character on
RECURSIVE CollapseDashes(_, _)
CollapseDashes(s, i) ==
    IF i > Len(s) THEN <<>>
    ELSE <<s[i]>> \o CollapseDashes(s, IF s[i] = "-" THEN RunEnd(s, i, {"-"}) + 1 ELSE i + 1)

\* the name with its dashes neither stripped nor collapsed
ReplacedOnly(value) == ReplaceDisallowed(toLowerCase(value), 1)

sanitizeName(value) ==
    CollapseDashes(StripDashes(ReplaceDisallowed(toLowerCase(value), 1)), 1)

ServerSuffix == <<"-", "s", "e", "r", "v", "e", "r">>

\* String.prototype.endsWith
EndsWith(s, suffix) ==
    Len(s) >= Len(suffix) /\ SubSeq(s, Len(s) - Len(suffix) + 1, Len(s)) = suffix

\* the suffix is appended whether or not the name has it
AlwaysSuffixed(value) == IF value = <<>> THEN value ELSE value \o ServerSuffix

ensureServerSuffix(value) ==
    IF value = <<>> THEN value
    ELSE IF EndsWith(value, ServerSuffix) THEN value ELSE value \o ServerSuffix

\* ensureServerSuffix of a sanitized name, 'mcp-server' for an empty one
SuffixedOr(sanitized) ==
    IF sanitized = <<>> THEN <<"m", "c", "p">> \o ServerSuffix ELSE ensureServerSuffix(sanitized)

slugify(value) == SuffixedOr(sanitizeName(value))

\* String.prototype.trim of a name
TrimName(s) ==
    Sub(s, RunEnd(s, 0, {" "}) + 1, RunStart(s, Len(s) + 1, {" "}) - 1)

\* validateInput of the input box: the texts the user can submit
ValidInput(value) == TrimName(value) # <<>> /\ sanitizeName(value) # <<>>

\* resolveServerName after the input box returned: entered is <<>> when the
\* user cancelled; <<>> stands for undefined
FromInputBox(entered) ==
    IF entered = <<>> THEN <<>> ELSE ensureServerSuffix(sanitizeName(entered))

resolveServerName(description, providedName, entered) ==
    IF TrimName(providedName) # <<>> /\ sanitizeName(providedName) # <<>>
    THEN ensureServerSuffix(sanitizeName(providedName))
    ELSE FromInputBox(entered)

\* the loop of ensureUniqueDirectory from a candidate name on: a candidate
\* is the number of its suffix, 0 for the preferred name, and present are
\* the candidates for which fs.existsSync holds
RECURSIVE FirstUnused(_, _)
FirstUnused(present, candidate) ==
    IF candidate \in present THEN FirstUnused(present, candidate + 1) ELSE candidate

\* the preferred name is returned whether it exists or not
PreferredCandidate(present) == 0

\* the candidate ensureUniqueDirectory returns
UnusedCandidate(present) == FirstUnused(present, 0)

\* the name of a candidate
CandidateName(preferredName, candidate) ==
    IF candidate = 0 THEN preferredName
    ELSE preferredName \o <<"-", ToString(candidate)>>

\* ensureUniqueDirectory when the preferred name and its numbered variants
\* below taken exist already
ensureUniqueDirectory(preferredName, taken) ==
    CandidateName(preferredName, UnusedCandidate(0..(taken - 1)))
----------------------------------------------------------------------------
(* OpenAIService.ts.  A reply is what client.chat.completions.create did:  *)
(* it failed with an Error of a message or with another value, or it       *)
(* returned a response whose choices?.[0]?.message?.content is a value     *)
(* (Undefined when a link of the chain is missing).                        *)

RequestFailedPrefix == "OpenAI request failed: "

\* the requests one call sends: one await of create, in no loop
RequestsSent(reply) == 1

\* the message of the catch block: error.message or 'Unknown error'
MessageOf(isError, message) == IF isError THEN message ELSE <<"Unknown error">>

\* the rejection of the catch block
RequestFailed(message) ==
    [resolved |-> FALSE, value |-> <<RequestFailedPrefix>> \o message]

\* the content is returned whatever it is
ContentReturned(reply) == [resolved |-> TRUE, value |-> reply.content.v]

generateServerSpecification(reply) ==
    IF reply.failed THEN RequestFailed(MessageOf(reply.isError, reply.message))
    ELSE IF ~Truthy(reply.content)
    THEN RequestFailed(MessageOf(TRUE, <<"Received empty response from OpenAI.">>))
    ELSE [resolved |-> TRUE, value |-> Trim(reply.content.v)]
----------------------------------------------------------------------------
(* CodeGenerator.ts: generateProject and its stages.  A validation gives   *)
(* the message of the error it throws, <<>> when it throws none.  The disk *)
(* is the directories and the files created below the output path; faults  *)
(* are the directories and files the file system refuses to create.        *)

\* !value || value.trim().length === 0
Blank(text) == Trim(text) = <<>>

validateGenerationOptions(opts, parentWritable) ==
    IF Blank(opts.description) THEN <<"Server description cannot be empty.">>
    ELSE IF Blank(opts.outputPath) THEN <<"Output path cannot be empty.">>
    ELSE IF Blank(opts.serverName) THEN <<"Server name cannot be empty.">>
    ELSE IF opts.language \notin {"typescript", "javascript", "python"}
    THEN <<"Invalid language: ", opts.language,
           ". Must be one of: typescript, javascript, python">>
    ELSE IF opts.transport \notin {"stdio", "sse"}
    THEN <<"Invalid transport: ", opts.transport, ". Must be one of: stdio, sse">>
    ELSE IF ~parentWritable
    THEN <<"Output directory is not writable: ">>
         \o Sub(opts.outputPath, 1, Len(opts.outputPath) - 1)
    ELSE <<>>

\* lowerResponse.includes(word), for the tokens that hold the word
HoldsWord(c, word) ==
    CASE word = "error" -> c \in {"error", "Error", "errors"}
      [] word = "failed" -> c \in {"failed", "Failed"}
      [] OTHER -> FALSE

LowerIncludes(resp, word) == \E i \in 1..Len(resp) : HoldsWord(resp[i], word)

\* every response passes
AnyResponse(resp) == <<>>

validateOpenAIResponse(resp) ==
    IF Blank(resp) THEN <<"OpenAI response is empty.">>
    ELSE IF CharLen(resp) < 10
    THEN <<"OpenAI response is too short to contain valid code.">>
    ELSE IF LowerIncludes(resp, "error") /\ LowerIncludes(resp, "failed")
    THEN <<"OpenAI response indicates an error occurred during generation.">>
    ELSE <<>>

\* file.includes('server.') || file.includes('index.'), for the tokens of a path
MainFileToken(c) ==
    c \in {"server.ts", "server.js", "server.py", "index.ts", "index.js", "myserver.ts"}

\* every structure passes
AnyStructure(struct) == <<>>

validateProjectStructure(struct) ==
    IF Len(struct.files) = 0
    THEN <<"Project structure must contain at least one file.">>
    ELSE IF ~\E i \in 1..Len(struct.files) :
               \E j \in 1..Len(struct.files[i][1]) : MainFileToken(struct.files[i][1][j])
    THEN <<"Project structure must contain a main server file.">>
    ELSE <<>>

\* what a run of createDirectories or createFiles left: the disk, what was
\* attempted, and the message of the error thrown (<<>> for none)
NoDisk == [dirs |-> {}, files |-> <<>>]

NoAttempts == [dirs |-> {}, files |-> {}]

\* createDirectories from the i-th directory on: the first failure throws
RECURSIVE CreateDirectoriesFrom(_, _, _, _, _)
CreateDirectoriesFrom(directories, i, faults, disk, attempts) ==
    IF i > Len(directories) THEN [disk |-> disk, attempts |-> attempts, error |-> <<>>]
    ELSE IF directories[i] \in disk.dirs
    THEN CreateDirectoriesFrom(directories, i + 1, faults, disk, attempts)
    ELSE IF directories[i] \in faults.dirs
    THEN [disk |-> disk,
          attempts |-> [attempts EXCEPT !.dirs = @ \cup {directories[i]}],
          error |-> <<"Failed to create directory ", directories[i], ": ", "EACCES">>]
    ELSE CreateDirectoriesFrom(directories, i + 1, faults,
                               [disk EXCEPT !.dirs = @ \cup {directories[i]}],
                               [attempts EXCEPT !.dirs = @ \cup {directories[i]}])

createDirectories(directories, faults, disk, attempts) ==
    CreateDirectoriesFrom(directories, 1, faults, disk, attempts)

\* the segment a token of a path stands for: "" for a separator alone
PathSegment(c) ==
    CASE c = "src/" -> "src"
      [] c = "dist/" -> "dist"
      [] c = "lib/" -> "lib"
      [] c = "../" -> ".."
      [] c = "/" -> ""
      [] OTHER -> c

\* path.join(basePath, filePath) from the i-th token of filePath on, as the
\* levels it climbs above basePath and the segments it then descends: an
\* empty segment is dropped, '..' removes the segment before it
RECURSIVE JoinFrom(_, _, _)
JoinFrom(filePath, i, at) ==
    IF i > Len(filePath) THEN at
    ELSE IF PathSegment(filePath[i]) \in {"", "."} THEN JoinFrom(filePath, i + 1, at)
    ELSE IF PathSegment(filePath[i]) # ".."
    THEN JoinFrom(filePath, i + 1,
                  [at EXCEPT !.below = Append(@, PathSegment(filePath[i]))])
    ELSE IF at.below = <<>> THEN JoinFrom(filePath, i + 1, [at EXCEPT !.up = @ + 1])
    ELSE JoinFrom(filePath, i + 1, [at EXCEPT !.below = Sub(@, 1, Len(@) - 1)])

\* line 117
fullPath(filePath) == JoinFrom(filePath, 1, [up |-> 0, below |-> <<>>])

\* the output directory and the directory above it, which exist
ExistingDirs == {".", ".."}

\* path.dirname of the full path of a file path: "." for the output path
\* itself, ".." for the directory above it
DirName(filePath) ==
    IF Len(filePath) = 1 THEN "."
    ELSE CASE filePath[1] = "src/" -> "src"
           [] filePath[1] = "dist/" -> "dist"
           [] filePath[1] = "../" -> ".."
           [] filePath[1] = "/" -> "."
           [] OTHER -> "lib"

\* the error of one iteration of createFiles, <<>> when the file was written
FileError(file, faults, disk) ==
    IF DirName(file[1]) \notin disk.dirs \cup ExistingDirs /\ DirName(file[1]) \in faults.dirs
    THEN <<"EACCES">>
    ELSE IF TypeOf(file[2]) # "string" THEN <<"File content must be a string">>
    ELSE IF file[1] \in faults.files THEN <<"EACCES">>
    ELSE <<>>

\* the disk after one iteration: the directory of the file is made before the
\* content is looked at
DiskAfter(file, faults, disk, error) ==
    [dirs |-> IF DirName(file[1]) \in faults.dirs THEN disk.dirs
              ELSE disk.dirs \cup ({DirName(file[1])} \ ExistingDirs),
     files |-> IF error = <<>> THEN Put(disk.files, file[1], file[2]) ELSE disk.files]

\* one iteration of the loop of createFiles
FileStep(acc, file, faults, error) ==
    [disk |-> DiskAfter(file, faults, acc.disk, error),
     attempts |-> [acc.attempts EXCEPT !.files = @ \cup {file[1]}],
     failed |-> IF error = <<>> THEN acc.failed ELSE Append(acc.failed, <<file[1], error>>)]

\* the loop of createFiles left at the first failure
WriteUntilFailure(acc, file, faults) ==
    IF acc.failed # <<>> THEN acc
    ELSE FileStep(acc, file, faults, FileError(file, faults, acc.disk))

WriteFile(acc, file, faults) ==
    FileStep(acc, file, faults, FileError(file, faults, acc.disk))

RECURSIVE CreateFilesFrom(_, _, _, _)
CreateFilesFrom(files, i, faults, acc) ==
    IF i > Len(files) THEN acc
    ELSE CreateFilesFrom(files, i + 1, faults, WriteFile(acc, files[i], faults))

\* failedFiles.map(f => `${f.file}: ${f.error}`).join('\n')
RECURSIVE ErrorDetails(_, _)
ErrorDetails(failed, i) ==
    IF i > Len(failed) THEN <<>>
    ELSE (IF i > 1 THEN <<"\n">> ELSE <<>>)
         \o failed[i][1] \o <<": ">> \o failed[i][2] \o ErrorDetails(failed, i + 1)

\* the report of createFiles
FilesReport(acc) ==
    [disk |-> acc.disk, attempts |-> acc.attempts,
     error |-> IF acc.failed = <<>> THEN <<>>
               ELSE <<"Failed to create ", ToString(Len(acc.failed)), " file(s):", "\n">>
                    \o ErrorDetails(acc.failed, 1)]

createFiles(files, faults, disk, attempts) ==
    FilesReport(CreateFilesFrom(files, 1, faults,
                                [disk |-> disk, attempts |-> attempts, failed |-> <<>>]))

FailedPrefix == "Failed to generate project: "

\* the error as it was thrown, with no prefix
Rethrown(message) == message

\* the catch block of generateProject
Wrapped(message) == <<FailedPrefix>> \o message
----------------------------------------------------------------------------
(* CreateServerCommand: the local template of execute.  The passages of    *)
(* the template between its fences, quotes, braces, backslashes and new    *)
(* lines are single tokens.                                                *)

getInstallSection(language) ==
    IF language = "python"
    THEN <<Fence, "bash", "\n", "python -m venv .venv", "\n",
           "source .venv/bin/activate  # On Windows use .venv", "\\", "Scripts", "\\",
           "activate", "\n", "pip install -r requirements.txt", "\n", "python server.py",
           "\n", Fence>>
    ELSE <<Fence, "bash", "\n", "npm install", "\n", "npm run build", "\n", "npm start",
           "\n", Fence>>

\* the file that the usage example of a language runs
UsageFile(language) ==
    CASE language = "python" -> "server.py"
      [] language = "typescript" -> "server.ts"
      [] OTHER -> "server.js"

UsageCommand(language) == IF language = "python" THEN "python" ELSE "node"

Quoted(s) == <<"\"">> \o s \o <<"\"">>

getUsageExample(language, serverName) ==
    <<"Configure your MCP client with:", "\n", "\n", Fence, "json", "\n", "{", "\n">>
    \o Quoted(<<"mcpServers">>) \o <<": ", "{", "\n">>
    \o Quoted(serverName) \o <<": ", "{", "\n">>
    \o Quoted(<<"command">>) \o <<": ">> \o Quoted(<<UsageCommand(language)>>) \o <<",", "\n">>
    \o Quoted(<<"args">>) \o <<": ", "[">> \o Quoted(<<UsageFile(language)>>)
    \o <<"]", "\n", "}", "\n", "}", "\n", "}", "\n", Fence>>

\* the readme of the local template
FallbackReadme(opts) ==
    <<"#", " ">> \o opts.serverName \o <<"\n", "\n">> \o opts.description
    \o <<"\n", "\n", "##", " Getting Started", "\n", "\n">>
    \o getInstallSection(opts.language)
    \o <<"\n", "\n", "##", " Usage", "\n", "\n">>
    \o getUsageExample(opts.language, opts.serverName)
    \o <<"\n", "\n", "##", " Next Steps", "\n", "\n",
         "The generated server is a starting point. Update the tool handlers to connect your APIs or business logic.">>

buildFallbackResponse(opts) ==
    Stringify(JObj(<< <<<<"serverCode">>, JStr(<<>>)>>,
                      <<<<"readme">>, JStr(FallbackReadme(opts))>>,
                      <<<<"installInstructions">>, JStr(getInstallSection(opts.language))>>,
                      <<<<"usageExample">>,
                        JStr(getUsageExample(opts.language, opts.serverName))>> >>))

\* lines 106-109 of execute: an empty response is replaced by the local template
ResponseOr(opts, resp) == IF resp = <<>> THEN buildFallbackResponse(opts) ELSE resp

\* what the withProgress task has when it calls generateProject, for a
\* settled call of generateServerSpecification
ObtainedFrom(opts, r) ==
    IF ~r.resolved
    THEN [response |-> buildFallbackResponse(opts), usedFallback |-> TRUE,
          cause |-> "requestFailed"]
    ELSE [response |-> ResponseOr(opts, r.value), usedFallback |-> r.value = <<>>,
          cause |-> IF r.value = <<>> THEN "emptyResponse" ELSE "none"]

\* the same when only the local template is used
ObtainedLocally(opts) ==
    [response |-> buildFallbackResponse(opts), usedFallback |-> TRUE, cause |-> "noKey"]
----------------------------------------------------------------------------
(* The structure specification: one call of generateStructure of the        *)
(* generator of a language on one parsed response                           *)

\* one entry file name for every language
EntryFileOfTypeScript(language) == <<"server.ts">>

\* CreateServerCommand.getEntryFileName
getEntryFileName(language) ==
    CASE language = "javascript" -> <<"server.js">>
      [] language = "python" -> <<"server.py">>
      [] OTHER -> <<"server.ts">>

MaxAdditional == 2  \* entries of the additionalFiles handed to generateStructure

NoOptions ==
    [description |-> <<>>, language |-> "none", transport |-> "none",
     outputPath |-> <<>>, serverName |-> <<>>]

NoStructure == [made |-> FALSE, threw |-> FALSE, directories |-> <<>>, files |-> <<>>]

StructOptions ==
    {[description |-> <<"Weather", " ", "data">>, language |-> l, transport |-> t,
      outputPath |-> <<"/out/", "weather-server">>, serverName |-> <<"weather-server">>] :
        l \in Languages, t \in {"stdio", "sse"}}

\* entries additionalFiles may hold: paths of generated files and other paths,
\* with string and non-string contents
AdditionalEntries ==
    {<<<<"server.ts">>, JStr(<<"own", " ", "server">>)>>,
     <<<<"server.py">>, JStr(<<"own", " ", "server">>)>>,
     <<<<"README.md">>, JStr(<<"own", " ", "readme">>)>>,
     <<<<"README.md">>, JNum(<<"5">>)>>,
     <<<<"package.json">>, JNull>>,
     <<<<"src/", "utils.ts">>, JStr(<<"export">>)>>,
     <<<<"tools">>, JStr(<<"t">>)>>}

AdditionalValues ==
    {JObj(AssignFrom(<<>>, pairs, 1)) : pairs \in SeqsUpTo(AdditionalEntries, MaxAdditional)}
    \cup {Undefined, JNull}

StructParsed ==
    {[NoRecord EXCEPT !.serverCode = code, !.usageExample = usage,
                      !.additionalFiles = files] :
        code \in {JStr(<<>>), JStr(<<"x">>), JStr(<<"tools", " ", "resources", " ", "prompts">>)},
        usage \in {Undefined, JStr(<<"run", " ", "it">>)},
        files \in AdditionalValues}

StructInit ==
    /\ genOptions \in StructOptions
    /\ genParsed \in StructParsed
    /\ structure = NoStructure
    /\ ParseIdle
    /\ RenderIdle
    /\ SelectIdle
    /\ NameIdle
    /\ AiIdle
    /\ CreateIdle
    /\ KeyIdle
    /\ TargetIdle

\* the state after generateStructure returned s
Generated(s) ==
    /\ ~structure.made
    /\ structure' = s
    /\ UNCHANGED <<genOptions, genParsed, parseVars, renderVars, selectVars, nameVars,
                   aiVars, createVars, keyVars, targetVars>>

Generate == Generated(generateStructure(genOptions, genParsed))

StructNext == Generate

SpecStructure == StructInit /\ [][StructNext]_vars
----------------------------------------------------------------------------
(* Properties of generateStructure *)

\* the content of the file of a path, Undefined when there is none
FileOf(files, path) == Get(JObj(files), path)

HasFile(files, path) == \E i \in 1..Len(files) : files[i][1] = path

\* the manifest of a language
ManifestOf(language) ==
    IF language = "python" THEN <<"requirements.txt">> ELSE <<"package.json">>

\* C11: in every language generator additionalFiles are merged after all
\* generated files: every key of additionalFiles maps to the additionalFiles
\* content in the final structure, overwriting a generated default of the
\* same path, and every generated file whose path is not a key of
\* additionalFiles keeps its generated content.
C11_AdditionalFilesMergedLast ==
    structure.made =>
        /\ ~structure.threw
        /\ \A i \in 1..Len(genParsed.additionalFiles.m) :
              /\ HasFile(structure.files, genParsed.additionalFiles.m[i][1])
              /\ FileOf(structure.files, genParsed.additionalFiles.m[i][1])
                    = genParsed.additionalFiles.m[i][2]
        /\ \A g \in 1..Len(GeneratedFiles(genOptions, genParsed)) :
              HasFile(genParsed.additionalFiles.m, GeneratedFiles(genOptions, genParsed)[g][1])
              \/ /\ HasFile(structure.files, GeneratedFiles(genOptions, genParsed)[g][1])
                 /\ FileOf(structure.files, GeneratedFiles(genOptions, genParsed)[g][1])
                       = GeneratedFiles(genOptions, genParsed)[g][2]

\* a generated README.md was overwritten, another path was added, and the
\* generated manifest was kept
C11_Witness ==
    /\ structure.made
    /\ genOptions.language = "javascript"
    /\ FileOf(genParsed.additionalFiles.m, <<"README.md">>) = JStr(<<"own", " ", "readme">>)
    /\ FileOf(structure.files, <<"README.md">>) = JStr(<<"own", " ", "readme">>)
    /\ FileOf(structure.files, <<"src/", "utils.ts">>) = JStr(<<"export">>)
    /\ FileOf(structure.files, <<"package.json">>) = JStr(generatePackageJson(genOptions))

\* C12: for each language and every parsed record the structure declares at
\* least one directory, and its files include the entry file, a manifest and
\* README.md; the entry file has the name getEntryFileName gives for the
\* language.
C12_MinimalStructure ==
    structure.made =>
        /\ ~structure.threw
        /\ Len(structure.directories) >= 1
        /\ ServerFileOf(genOptions.language) = getEntryFileName(genOptions.language)
        /\ getEntryFileName(genOptions.language)
              \in {<<"server.ts">>, <<"server.js">>, <<"server.py">>}
        /\ HasFile(structure.files, getEntryFileName(genOptions.language))
        /\ HasFile(structure.files, ManifestOf(genOptions.language))
        /\ HasFile(structure.files, <<"README.md">>)

\* a Python structure whose additionalFiles bring their own server.py
C12_Witness ==
    /\ structure.made
    /\ genOptions.language = "python"
    /\ HasFile(genParsed.additionalFiles.m, <<"server.py">>)
    /\ HasFile(structure.files, <<"requirements.txt">>)
    /\ structure.directories = <<"src">>
----------------------------------------------------------------------------
(* The name specification: one raw name, handed to sanitizeName, to        *)
(* ensureServerSuffix, or to execute as the provided name, the description *)
(* or the text of the input box                                            *)

MaxNameLen == 3  \* characters of a raw name before its ending
MaxTaken == 1    \* directories of the preferred name that exist already

NameAlphabet == {"a", "W", "-", " ", "!"}

NameEndings ==
    {<<>>, ServerSuffix, <<"s", "e", "r", "v", "e", "r">>,
     <<"-", "S", "e", "r", "v", "e", "r">>, ServerSuffix \o <<"-">>,
     ServerSuffix \o ServerSuffix, <<"_", "0">>,
     <<"W", "e", "a", "t", "h", "e", "r", " ", "T", "o", "o", "l", "s", "!">>}

NameInit ==
    /\ rawName \in {start \o ending : start \in SeqsUpTo(NameAlphabet, MaxNameLen),
                                       ending \in NameEndings}
    /\ nameCall = "none"
    /\ nameOnce = <<>>
    /\ nameTwice = <<>>
    /\ ParseIdle
    /\ RenderIdle
    /\ SelectIdle
    /\ StructIdle
    /\ AiIdle
    /\ CreateIdle
    /\ KeyIdle
    /\ TargetIdle

\* the state after a call returned once, and twice on its own result
Named(call, once, twice) ==
    /\ nameCall = "none"
    /\ nameCall' = call
    /\ nameOnce' = once
    /\ nameTwice' = twice
    /\ UNCHANGED <<rawName, parseVars, renderVars, selectVars, structVars, aiVars,
                   createVars, keyVars, targetVars>>

Sanitize ==
    Named("sanitizeName", sanitizeName(rawName), sanitizeName(sanitizeName(rawName)))

EnsureSuffix ==
    Named("ensureServerSuffix", ensureServerSuffix(rawName),
          ensureServerSuffix(ensureServerSuffix(rawName)))

\* the name execute hands to generateProject: resolveServerName, then
\* ensureUniqueDirectory of resolveTargetDirectory; no name when cancelled
PassedName(name, taken) ==
    IF name = <<>> THEN Named("cancelled", <<>>, <<>>)
    ELSE Named("execute", ensureUniqueDirectory(name, taken), <<>>)

ResolveName ==
    /\ nameCall = "none"
    /\ \E description \in {rawName, <<"W", "x">>},
          providedName \in {<<>>, rawName},
          entered \in {e \in {rawName, slugify(rawName), <<"a", " ", "b">>} : ValidInput(e)}
                      \cup {<<>>},
          taken \in 0..MaxTaken :
           /\ entered \in {<<>>, slugify(description)} \/ description # rawName
           /\ PassedName(resolveServerName(description, providedName, entered), taken)

NameNext == Sanitize \/ EnsureSuffix \/ ResolveName

SpecName == NameInit /\ [][NameNext]_vars
----------------------------------------------------------------------------
(* Properties of the server names *)

\* C17: for every input string, sanitizeName returns a string made only of
\* a-z, 0-9 and '-', with no leading, trailing or doubled dash, and is
\* idempotent; every server name execute passes to generateProject is
\* non-empty and matches [a-z0-9-]+.
C17_SanitizedNames ==
    /\ nameCall = "sanitizeName" =>
          /\ Range(nameOnce) \subseteq SlugChars
          /\ nameOnce # <<>> => nameOnce[1] # "-" /\ nameOnce[Len(nameOnce)] # "-"
          /\ \A i \in 1..(Len(nameOnce) - 1) : ~(nameOnce[i] = "-" /\ nameOnce[i + 1] = "-")
          /\ nameTwice = nameOnce
          /\ rawName = <<"W", "e", "a", "t", "h", "e", "r", " ", "T", "o", "o", "l", "s", "!">>
                => nameOnce = <<"w", "e", "a", "t", "h", "e", "r", "-", "t", "o", "o", "l", "s">>
    /\ nameCall = "execute" =>
          /\ nameOnce # <<>>
          /\ Range(nameOnce) \subseteq SlugChars

\* a raw name with capitals, spaces and punctuation around a dash was sanitized
C17_Witness ==
    /\ nameCall = "sanitizeName"
    /\ rawName = <<" ", "-", "!", "W", "e", "a", "t", "h", "e", "r", " ", "T", "o", "o", "l", "s", "!">>
    /\ nameOnce = <<"w", "e", "a", "t", "h", "e", "r", "-", "t", "o", "o", "l", "s">>

\* C18: ensureServerSuffix appends '-server' exactly once: a non-empty name
\* that ends with '-server' is returned unchanged, any other non-empty name
\* gets '-server' appended, and applying the function twice gives the same
\* as applying it once.
C18_SuffixOnce ==
    nameCall = "ensureServerSuffix" =>
        /\ rawName # <<>> /\ EndsWith(rawName, ServerSuffix) => nameOnce = rawName
        /\ rawName # <<>> /\ ~EndsWith(rawName, ServerSuffix)
              => nameOnce = rawName \o ServerSuffix
        /\ nameTwice = nameOnce

\* a name that ends with 'server' but not with '-server' got the suffix
C18_Witness ==
    /\ nameCall = "ensureServerSuffix"
    /\ rawName = <<"a", "s", "e", "r", "v", "e", "r">>
    /\ nameOnce = <<"a", "s", "e", "r", "v", "e", "r">> \o ServerSuffix
    /\ nameTwice = nameOnce
----------------------------------------------------------------------------
(* The OpenAI specification: calls of generateServerSpecification, each    *)
(* answered by the client in one of the ways a reply can be                *)

MaxContent == 3    \* tokens of the content of a reply
MaxAiCalls == 2    \* calls of generateServerSpecification

NoReply == [failed |-> FALSE, isError |-> FALSE, message |-> <<>>, content |-> Undefined]

Replies ==
    {[NoReply EXCEPT !.failed = TRUE, !.isError = e, !.message = m] :
        e \in BOOLEAN, m \in {<<"network down">>, <<>>}}
    \cup {[NoReply EXCEPT !.content = c] :
            c \in {Undefined, JNull}
                  \cup {JStr(s) : s \in SeqsUpTo({" ", "\n", "generated", "{"}, MaxContent)}}

AiInit ==
    /\ aiReply = NoReply
    /\ aiCalls = 0
    /\ aiRequests = 0
    /\ aiOutcome = "none"
    /\ aiResult = <<>>
    /\ ParseIdle
    /\ RenderIdle
    /\ SelectIdle
    /\ StructIdle
    /\ NameIdle
    /\ CreateIdle
    /\ KeyIdle
    /\ TargetIdle

\* the state after a call that the client answered with reply settled as r
Specified(reply, r) ==
    /\ aiCalls < MaxAiCalls
    /\ aiCalls' = aiCalls + 1
    /\ aiRequests' = aiRequests + RequestsSent(reply)
    /\ aiReply' = reply
    /\ aiOutcome' = IF r.resolved THEN "resolved" ELSE "rejected"
    /\ aiResult' = r.value
    /\ UNCHANGED <<parseVars, renderVars, selectVars, structVars, nameVars, createVars,
                   keyVars, targetVars>>

GenerateSpecification ==
    \E reply \in Replies : Specified(reply, generateServerSpecification(reply))

AiNext == GenerateSpecification

SpecOpenAI == AiInit /\ [][AiNext]_vars
----------------------------------------------------------------------------
(* Properties of OpenAIService *)

----------------------------------------------------------------------------
(* The create specification: one run of CreateServerCommand.execute, of    *)
(* generateProject alone, or of generateProject from the structure its     *)
(* file generator returned.  The file system refuses the directories and   *)
(* files of refused, which it settles when createDirectories starts.       *)

MaxFaults == 1    \* directories, and files, the file system refuses in a run

MaxExisting == 1  \* directories that exist before generateProject runs

\* the stages of generateProject, in the order of its body
Stages ==
    <<"options", "response", "parse", "build", "structure", "directories", "files",
      "postProcess">>

\* the stages that come before the file system is written to
Checks == {"options", "response", "parse", "build", "structure"}

NoSource == [response |-> <<>>, usedFallback |-> FALSE, cause |-> "none"]

NoParsed == [jsonData |-> JNull, threw |-> FALSE, rec |-> NoRecord]

DirectOptions ==
    {[description |-> d, language |-> l, transport |-> "stdio",
      outputPath |-> <<"/out/", "w-server">>, serverName |-> <<"w-server">>] :
        d \in {<<"Weather", " ", "data">>, <<" ">>}, l \in Languages \cup {"ruby"}}

\* a reply with a document in a json block: a code, and additional files
\* one of which is no string and one of which lies in a directory
FencedDocument ==
    <<"Here", " ", "is", " ", "the", " ", "server", "\n", Fence, "json", "\n">>
    \o Stringify(JObj(<< <<<<"serverCode">>, JStr(<<"const", " ", "x">>)>>,
                         <<<<"additionalFiles">>,
                           JObj(<< <<<<"lib/", "index.js">>, JStr(<<"x">>)>>,
                                   <<<<"notes.md">>, JNum(<<"1">>)>>,
                                   <<<<"src/", "utils.ts">>, JStr(<<"export">>)>> >>)>> >>))
    \o <<"\n", Fence>>

\* a reply whose prose holds both indicator words, before a document that
\* the schema accepts
ApologeticDocument ==
    <<"No", " ", "error", " ", "handling", " ", "failed", " ", "here", "\n", Fence, "json", "\n">>
    \o Stringify(JObj(<< <<<<"serverCode">>, JStr(<<"const", " ", "x">>)>> >>))
    \o <<"\n", Fence>>

\* a reply with a document whose additional files have a key that climbs
\* out of the directory and a key that is an absolute path
ClimbingDocument ==
    <<Fence, "json", "\n">>
    \o Stringify(JObj(<< <<<<"serverCode">>, JStr(<<"const", " ", "x">>)>>,
                         <<<<"additionalFiles">>,
                           JObj(<< <<<<"../", "outside.md">>, JStr(<<"x">>)>>,
                                   <<<<"/", "absolute.md">>, JStr(<<"y">>)>> >>)>> >>))
    \o <<"\n", Fence>>

DirectResponses ==
    {<<>>, <<"o", "k">>, ApologeticDocument, ClimbingDocument,
     <<"error", ":", " ", "the", " ", "request", " ", "failed", " ", "again">>,
     <<"PAD50", "\n", Fence, "json", "\n", "{", Fence>>,
     <<"Here", " ", "is", " ", "the", " ", "server", " ", "you", " ", "asked", " ", "for">>,
     FencedDocument}

\* structures a file generator could hand to validateProjectStructure
GivenStructures ==
    {[made |-> TRUE, threw |-> FALSE, directories |-> <<"src">>, files |-> files] :
        files \in {<<>>,
                   << <<<<"README.md">>, JStr(<<"r">>)>> >>,
                   << <<<<"src/", "utils.ts">>, JStr(<<"export">>)>>,
                      <<<<"README.md">>, JStr(<<"r">>)>> >>,
                   << <<<<"lib/", "index.js">>, JStr(<<"x">>)>>,
                      <<<<"README.md">>, JNull>> >>}}

\* what execute asks the user for
CreateDescriptions ==
    {<<>>, <<"Weather", " ", "data">>,
     <<"Report", " ", "failed", " ", "jobs", " ", "and", " ", "error", " ", "logs">>}

CreateNames == {<<>>, <<"W", "x">>}

CreateReplies ==
    {[NoReply EXCEPT !.failed = TRUE, !.isError = TRUE, !.message = <<"timeout">>],
     NoReply,
     [NoReply EXCEPT !.content = JStr(<<" ">>)],
     [NoReply EXCEPT !.content = JStr(<<"o", "k">>)],
     [NoReply EXCEPT !.content = JStr(FencedDocument)]}

\* the state after construction: what is run, from which stage, on what
CreateStart(e, s, opts, w, src, struct, d, p) ==
    /\ entry = e
    /\ stage = s
    /\ projOptions = opts
    /\ writable = w
    /\ source = src
    /\ projParsed = NoParsed
    /\ projStructure = struct
    /\ onDisk = d
    /\ tried = NoAttempts
    /\ refused = NoAttempts
    /\ passed = p
    /\ thrown = <<>>
    /\ statuses = <<>>
    /\ notifications = <<>>
    /\ generating = FALSE
    /\ seen = 0
    /\ posted = 0

CreateInit ==
    /\ ParseIdle
    /\ RenderIdle
    /\ SelectIdle
    /\ StructIdle
    /\ NameIdle
    /\ AiIdle
    /\ KeyIdle
    /\ TargetIdle
    /\ \/ CreateStart("execute", "idle", NoOptions, TRUE, NoSource, NoStructure, NoDisk, {})
       \/ \E opts \in DirectOptions, w \in BOOLEAN, resp \in DirectResponses,
             existing \in {dirs \in SUBSET {"src"} : Cardinality(dirs) <= MaxExisting} :
              CreateStart("generateProject", "options", opts, w,
                          [NoSource EXCEPT !.response = resp], NoStructure,
                          [NoDisk EXCEPT !.dirs = existing], {})
       \/ \E struct \in GivenStructures, l \in Languages :
              CreateStart("structure", "structure",
                          [description |-> <<"Weather", " ", "data">>, language |-> l,
                           transport |-> "stdio", outputPath |-> <<"/out/", "w-server">>,
                           serverName |-> <<"w-server">>],
                          TRUE, NoSource, struct, NoDisk,
                          {"options", "response", "parse", "build"})

otherVars ==
    <<parseVars, renderVars, selectVars, structVars, nameVars, aiVars, keyVars, targetVars>>

\* sendStatusToWebview and the notifications of vscode.window
Status(level, message) == [level |-> level, message |-> message]

Notification(kind, message) == [kind |-> kind, message |-> message]

\* a stage of generateProject ended: with no message it returned and the
\* next stage follows, else the catch block rejects with the wrapped message
Ended(at, next, message) ==
    IF message = <<>>
    THEN /\ stage' = next
         /\ passed' = passed \cup {at}
         /\ UNCHANGED thrown
    ELSE /\ stage' = "failed"
         /\ thrown' = Append(thrown, [at |-> at, message |-> Wrapped(message)])
         /\ UNCHANGED passed

\* line 48
ValidateOptions ==
    /\ stage = "options"
    /\ Ended("options", "response", validateGenerationOptions(projOptions, writable))
    /\ UNCHANGED <<entry, projOptions, writable, source, projParsed, projStructure, onDisk,
                   tried, refused, statuses, notifications, panelVars, otherVars>>

\* line 49
ValidateResponse ==
    /\ stage = "response"
    /\ Ended("response", "parse", validateOpenAIResponse(source.response))
    /\ UNCHANGED <<entry, projOptions, writable, source, projParsed, projStructure, onDisk,
                   tried, refused, statuses, notifications, panelVars, otherVars>>

ParseReturned(r) ==
    /\ projParsed' = r
    /\ Ended("parse", "build",
             IF r.threw THEN <<"No valid JSON found in response">> ELSE <<>>)

\* line 52
ParseResponse ==
    /\ stage = "parse"
    /\ ParseReturned(ResponseParserFactory_parse(source.response))
    /\ UNCHANGED <<entry, projOptions, writable, source, projStructure, onDisk, tried,
                   refused, statuses, notifications, panelVars, otherVars>>

StructureReturned(s) ==
    /\ projStructure' = s
    /\ Ended("build", "structure",
             IF s.threw THEN <<"Template not found: ", selectTemplate(projOptions, projParsed.rec)>>
             ELSE <<>>)

\* line 55
BuildStructure ==
    /\ stage = "build"
    /\ StructureReturned(generateStructure(projOptions, projParsed.rec))
    /\ UNCHANGED <<entry, projOptions, writable, source, projParsed, onDisk, tried, refused,
                   statuses, notifications, panelVars, otherVars>>

\* line 58
ValidateStructure ==
    /\ stage = "structure"
    /\ Ended("structure", "directories", validateProjectStructure(projStructure))
    /\ UNCHANGED <<entry, projOptions, writable, source, projParsed, projStructure, onDisk,
                   tried, refused, statuses, notifications, panelVars, otherVars>>

\* the directories and the paths of a structure
DirectoriesIn(struct) ==
    {struct.directories[i] : i \in 1..Len(struct.directories)}
    \cup ({DirName(struct.files[i][1]) : i \in 1..Len(struct.files)} \ ExistingDirs)

PathsIn(struct) == {struct.files[i][1] : i \in 1..Len(struct.files)}

\* what the file system may refuse during a run
FaultsFor(struct) ==
    {[dirs |-> d, files |-> f] :
        d \in {ds \in SUBSET DirectoriesIn(struct) : Cardinality(ds) <= MaxFaults},
        f \in {fs \in SUBSET PathsIn(struct) : Cardinality(fs) <= MaxFaults}}

Materialized(at, next, r) ==
    /\ onDisk' = r.disk
    /\ tried' = r.attempts
    /\ Ended(at, next, r.error)

\* line 61
CreateDirectories ==
    /\ stage = "directories"
    /\ \E f \in FaultsFor(projStructure) :
          /\ refused' = f
          /\ Materialized("directories", "files",
                          createDirectories(projStructure.directories, f, onDisk, tried))
    /\ UNCHANGED <<entry, projOptions, writable, source, projParsed, projStructure,
                   statuses, notifications, panelVars, otherVars>>

\* line 64
CreateFiles ==
    /\ stage = "files"
    /\ Materialized("files", "postProcess",
                    createFiles(projStructure.files, refused, onDisk, tried))
    /\ UNCHANGED <<entry, projOptions, writable, source, projParsed, projStructure, refused,
                   statuses, notifications, panelVars, otherVars>>

\* line 67: postProcessFiles and the three functions it calls do nothing
PostProcessFiles ==
    /\ stage = "postProcess"
    /\ Ended("postProcess", "completed", <<>>)
    /\ UNCHANGED <<entry, projOptions, writable, source, projParsed, projStructure, onDisk,
                   tried, refused, statuses, notifications, panelVars, otherVars>>

\* execute returns and sends nothing
ReturnsSilently(message) ==
    /\ stage' = "cancelled"
    /\ UNCHANGED <<statuses, projOptions, notifications>>

\* execute returns after a warning
Cancelled(message) ==
    /\ stage' = "cancelled"
    /\ statuses' = Append(statuses, Status("warning", message))
    /\ UNCHANGED <<projOptions, notifications>>

\* the catch block of execute
Caught(message) ==
    /\ stage' = "done"
    /\ notifications' =
          Append(notifications, Notification("error", <<"Failed to create MCP server: ">> \o message))
    /\ statuses' = Append(statuses, Status("error", <<"Failed to create server: ">> \o message))

\* lines 40-52, once the name is known: the target directory and the options
Targeted(description, language, transport, name, picked, taken, baseWritable) ==
    IF name = <<>>
    THEN Cancelled(<<"Server creation cancelled before selecting a name.">>)
    ELSE IF ~picked
    THEN Cancelled(<<"Server creation cancelled before choosing a destination.">>)
    ELSE IF ~baseWritable
    THEN Caught(<<"EACCES">>) /\ UNCHANGED projOptions
    ELSE /\ projOptions' =
              [description |-> description, language |-> language, transport |-> transport,
               outputPath |-> <<"/base/">> \o ensureUniqueDirectory(name, taken),
               serverName |-> ensureUniqueDirectory(name, taken)]
         /\ stage' = "key"
         /\ UNCHANGED <<statuses, notifications>>

MaxClicks == 2  \* generateServer commands the script of the webview posts

\* execute was called and has not returned
InProgress == entry = "execute" /\ stage \notin {"idle", "cancelled", "done"}

\* the click handler of the Generate button, with a description and a name
\* in the form (with a blank one it shows a warning and changes nothing):
\* _onMessage runs the createServer command with the data of the form.  Of
\* the executions that run at the same time the first is followed.
ClickGenerate ==
    /\ entry = "execute"
    /\ stage = "idle" \/ InProgress
    /\ ~generating
    /\ posted < MaxClicks
    /\ generating' = TRUE
    /\ posted' = posted + 1
    /\ stage' = IF stage = "idle" THEN "resolve" ELSE stage
    /\ UNCHANGED <<entry, projOptions, writable, source, projParsed, projStructure, onDisk,
                   tried, refused, passed, thrown, statuses, notifications, seen, otherVars>>

\* the command is run with no arguments, from the command palette
RunCommand ==
    /\ entry = "execute"
    /\ stage = "idle"
    /\ stage' = "resolve"
    /\ UNCHANGED <<entry, projOptions, writable, source, projParsed, projStructure, onDisk,
                   tried, refused, passed, thrown, statuses, notifications, panelVars,
                   otherVars>>

\* the message handler of the script, for the next status that was sent to
\* the panel that is open (sendMessage drops the message when there is none)
HandleStatus ==
    /\ posted > 0
    /\ seen < Len(statuses)
    /\ seen' = seen + 1
    /\ generating' =
          IF statuses[seen + 1].level \in {"success", "error", "warning"} THEN FALSE
          ELSE generating
    /\ UNCHANGED <<entry, stage, projOptions, writable, source, projParsed, projStructure,
                   onDisk, tried, refused, passed, thrown, statuses, notifications, posted,
                   otherVars>>

\* the language and transport that are picked together
Picks ==
    {<<"typescript", "stdio">>, <<"javascript", "sse">>, <<"python", "stdio">>,
     <<"none", "stdio">>, <<"python", "none">>}

\* lines 28-52: "none" stands for a pick the user dismissed
ResolveRequest ==
    /\ stage = "resolve"
    /\ \E description \in CreateDescriptions, pick \in Picks, providedName \in CreateNames,
          entered \in {<<>>, <<"a", " ", "b">>}, picked \in BOOLEAN, taken \in 0..MaxTaken,
          baseWritable \in BOOLEAN :
           /\ posted > 0 =>
                 (~Blank(description) /\ "none" \notin {pick[1], pick[2]} /\ providedName # <<>>)
           /\ providedName = <<>> \/ entered = <<>>
           /\ providedName # <<>> \/ taken = 0
           /\ picked \/ (taken = 0 /\ baseWritable)
           /\ baseWritable \/ (taken = 0 /\ description # <<>> /\ pick[1] = "python")
           /\ IF Blank(description) \/ "none" \in {pick[1], pick[2]}
              THEN Cancelled(<<"Generation cancelled.">>)
              ELSE Targeted(Trim(description), pick[1], pick[2],
                            resolveServerName(description, providedName, entered), picked,
                            taken, baseWritable)
    /\ UNCHANGED <<entry, writable, source, projParsed, projStructure, onDisk, tried,
                   refused, passed, thrown, panelVars, otherVars>>

\* lines 54-70
EnsureApiKey ==
    /\ stage = "key"
    /\ \E apiKey \in BOOLEAN, selection \in {"Use Local Template", "Cancel", "none"} :
          /\ apiKey => selection = "none"
          /\ IF apiKey THEN stage' = "request" /\ UNCHANGED statuses
             ELSE IF selection = "Use Local Template"
             THEN stage' = "local" /\ UNCHANGED statuses
             ELSE /\ stage' = "cancelled"
                  /\ statuses' =
                        Append(statuses,
                               Status("warning",
                                      <<"Server creation cancelled because no API key was provided.">>))
    /\ UNCHANGED <<entry, projOptions, writable, source, projParsed, projStructure, onDisk,
                   tried, refused, passed, thrown, notifications, panelVars, otherVars>>

\* lines 83-98 and 106-109, for the call settled as r
Requested(r) ==
    /\ source' = ObtainedFrom(projOptions, r)
    /\ statuses' =
          IF r.resolved
          THEN Append(statuses, Status("info", <<"Contacting OpenAI to design the server.">>))
          ELSE statuses
               \o <<Status("info", <<"Contacting OpenAI to design the server.">>),
                    Status("warning", r.value \o <<". Falling back to local template.">>)>>

RequestDesign ==
    /\ stage = "request"
    /\ stage' = "options"
    /\ \E reply \in CreateReplies : Requested(generateServerSpecification(reply))
    /\ UNCHANGED <<entry, projOptions, writable, projParsed, projStructure, onDisk, tried,
                   refused, passed, thrown, notifications, panelVars, otherVars>>

\* lines 99-109
UseLocalTemplate ==
    /\ stage = "local"
    /\ stage' = "options"
    /\ source' = ObtainedLocally(projOptions)
    /\ statuses' =
          Append(statuses, Status("info", <<"Using local template to scaffold the server.">>))
    /\ UNCHANGED <<entry, projOptions, writable, projParsed, projStructure, onDisk, tried,
                   refused, passed, thrown, notifications, panelVars, otherVars>>

\* lines 119-122
finalMessage(opts, usedFallback) ==
    <<"MCP server '">> \o opts.serverName \o <<"' created at ">> \o opts.outputPath
    \o <<".">>
    \o (IF usedFallback
        THEN <<" Generated using the local template. You can refine the implementation manually.">>
        ELSE <<" Generated using OpenAI.">>)

\* lines 117-135: openEntryFile changes nothing and swallows its errors
Complete ==
    /\ stage = "completed"
    /\ entry = "execute"
    /\ stage' = "done"
    /\ notifications' =
          Append(notifications,
                 Notification("information", finalMessage(projOptions, source.usedFallback)))
    /\ statuses' =
          Append(statuses,
                 Status("success",
                        IF source.usedFallback
                        THEN <<"Server created using the built-in template. Review and customise the generated files.">>
                        ELSE <<"Server created successfully with AI-assisted code generation.">>))
    /\ UNCHANGED <<entry, projOptions, writable, source, projParsed, projStructure, onDisk,
                   tried, refused, passed, thrown, panelVars, otherVars>>

\* lines 136-140
Fail ==
    /\ stage = "failed"
    /\ entry = "execute"
    /\ Caught(thrown[Len(thrown)].message)
    /\ UNCHANGED <<entry, projOptions, writable, source, projParsed, projStructure, onDisk,
                   tried, refused, passed, thrown, panelVars, otherVars>>

CreateNext ==
    \/ ClickGenerate
    \/ RunCommand
    \/ HandleStatus
    \/ ResolveRequest
    \/ EnsureApiKey
    \/ RequestDesign
    \/ UseLocalTemplate
    \/ ValidateOptions
    \/ ValidateResponse
    \/ ParseResponse
    \/ BuildStructure
    \/ ValidateStructure
    \/ CreateDirectories
    \/ CreateFiles
    \/ PostProcessFiles
    \/ Complete
    \/ Fail

SpecCreate == CreateInit /\ [][CreateNext]_vars

\* the webview handles every message that was posted to it
SpecCreateFair == SpecCreate /\ WF_vars(HandleStatus)
----------------------------------------------------------------------------
(* Properties of generateProject and execute *)

\* the path is one of the files of the disk, with this content
Written(path, content) ==
    \E k \in 1..Len(onDisk.files) : onDisk.files[k] = <<path, content>>

HasStatus(level) == \E k \in 1..Len(statuses) : statuses[k].level = level

HasNotification(kind) == \E k \in 1..Len(notifications) : notifications[k].kind = kind

\* generateProject rejected at a stage
RejectedAt(at) == thrown # <<>> /\ thrown[1].at = at

\* a structure with no file, or with no path that holds 'server.' or 'index.'
Unfit(struct) ==
    \/ struct.files = <<>>
    \/ \A i \in 1..Len(struct.files) :
          \A j \in 1..Len(struct.files[i][1]) : ~MainFileToken(struct.files[i][1][j])

\* C13: generateProject runs mkdirSync and writes files only once option
\* validation, response validation, parsing, structure building and
\* structure validation have all returned; a structure with no files, or
\* with no path holding 'server.' or 'index.', is rejected by the structure
\* validation and nothing of the file system was touched.
C13_ChecksBeforeFileSystem ==
    /\ (tried # NoAttempts \/ onDisk.files # <<>>) => Checks \subseteq passed
    /\ stage \in {"directories", "files", "postProcess", "completed"} => Checks \subseteq passed
    /\ (projStructure.made /\ Unfit(projStructure)) =>
          /\ tried = NoAttempts
          /\ onDisk.files = <<>>
          /\ "structure" \notin passed
          /\ stage \in {"failed", "done"} => RejectedAt("structure")

C13_Witness ==
    /\ entry = "structure"
    /\ projStructure.files # <<>>
    /\ Unfit(projStructure)
    /\ stage = "failed"
    /\ RejectedAt("structure")
    /\ onDisk = NoDisk

\* the loop of createFiles ran
FilesRan == "files" \in passed \/ RejectedAt("files")

\* a file of non-string content, or one the file system refuses: itself, or
\* its directory which does not exist
Broken(file) ==
    \/ TypeOf(file[2]) # "string"
    \/ file[1] \in refused.files
    \/ DirName(file[1]) \in refused.dirs /\ DirName(file[1]) \notin onDisk.dirs

\* the message has a line for the path
NamesFile(message, path) == Includes(message, <<"\n">> \o path \o <<": ">>)

\* C14: once the loop of createFiles ran, every file of the structure was
\* attempted, every file that has string content and that the file system
\* accepts is on disk with its content, whatever happened to the others, and
\* the one error names exactly the files that failed (no error when none did).
C14_EveryFileAttempted ==
    FilesRan =>
        /\ tried.files = PathsIn(projStructure)
        /\ Len(thrown) <= 1
        /\ \A i \in 1..Len(projStructure.files) :
              /\ ~Broken(projStructure.files[i]) =>
                    Written(projStructure.files[i][1], projStructure.files[i][2])
              /\ Broken(projStructure.files[i]) =>
                    /\ RejectedAt("files")
                    /\ NamesFile(thrown[1].message, projStructure.files[i][1])
                    /\ ~\E k \in 1..Len(onDisk.files) :
                           onDisk.files[k][1] = projStructure.files[i][1]
              /\ (thrown # <<>> /\ NamesFile(thrown[1].message, projStructure.files[i][1])) =>
                    Broken(projStructure.files[i])
        /\ RejectedAt("files") => \E i \in 1..Len(projStructure.files) : Broken(projStructure.files[i])

C14_Witness ==
    /\ RejectedAt("files")
    /\ \E i, j, k \in 1..Len(projStructure.files) :
          /\ i < j
          /\ j < k
          /\ TypeOf(projStructure.files[j][2]) # "string"
          /\ ~Broken(projStructure.files[i])
          /\ ~Broken(projStructure.files[k])
          /\ Written(projStructure.files[k][1], projStructure.files[k][2])
    /\ \E i \in 1..Len(projStructure.files) : projStructure.files[i][1] \in refused.files

\* the directories the structure declares
Declared == {projStructure.directories[i] : i \in 1..Len(projStructure.directories)}

\* C15: when mkdirSync failed for a declared directory, then once
\* generateProject ended every other declared directory that was missing and
\* every file was attempted, and generateProject rejected.
C15_DirectoryErrorDoesNotAbort ==
    (stage \in {"failed", "completed", "done"} /\ tried.dirs \cap refused.dirs \cap Declared # {}) =>
        /\ Declared \subseteq tried.dirs \cup onDisk.dirs
        /\ tried.files = PathsIn(projStructure)
        /\ thrown # <<>>

\* C16: generateProject rejects at most once, it rejects exactly when it
\* ended at a failed stage, with a message that starts with 'Failed to generate
\* project: '; execute sends the success status and the information message
\* only when every stage of generateProject returned and none rejected, and
\* never sends both a success and an error status.
C16_OneWrappedError ==
    /\ Len(thrown) <= 1
    /\ stage = "failed" => Len(thrown) = 1
    /\ stage = "completed" => thrown = <<>>
    /\ \A k \in 1..Len(thrown) :
          /\ thrown[k].message[1] = FailedPrefix
          /\ thrown[k].message[2] # FailedPrefix
          /\ thrown[k].at \notin passed
    /\ (HasStatus("success") \/ HasNotification("information")) =>
          /\ entry = "execute"
          /\ thrown = <<>>
          /\ {Stages[k] : k \in 1..Len(Stages)} \subseteq passed
    /\ ~(HasStatus("success") /\ HasStatus("error"))
    /\ Len(SelectSeq(statuses, LAMBDA st : st.level \in {"success", "error"})) <= 1

C16_Witness ==
    /\ entry = "execute"
    /\ stage = "done"
    /\ RejectedAt("files")
    /\ onDisk.files # <<>>
    /\ HasStatus("error")
    /\ HasNotification("error")

\* the file system refuses nothing in this run
NothingRefused == refused = NoAttempts

\* C19: when execute fell back to the local template (no API key and the
\* local template chosen, a failed request, or an empty response),
\* generateProject runs on the response of buildFallbackResponse, it does not
\* reject when the file system refuses nothing, and when execute is done the
\* files of the structure are on disk, the success status was sent and the
\* final message says that the local template was used.
C19_FallbackAlwaysGenerates ==
    (entry = "execute" /\ source.usedFallback /\ NothingRefused) =>
        /\ source.response = buildFallbackResponse(projOptions)
        /\ thrown = <<>>
        /\ stage = "done" =>
              /\ HasStatus("success")
              /\ projStructure.made
              /\ \A i \in 1..Len(projStructure.files) :
                    Written(projStructure.files[i][1], projStructure.files[i][2])
              /\ notifications # <<>>
              /\ notifications[Len(notifications)].message
                    = finalMessage(projOptions, TRUE)
----------------------------------------------------------------------------
(* Further properties of the parsers *)

\* what the strategy of that name alone gives for a response
Alone(parser, resp) ==
    CASE parser = "json" -> JsonResponseParser_parse(resp)
      [] parser = "markdown" -> MarkdownResponseParser_parse(resp)
      [] parser = "text" -> TextResponseParser_parse(resp)
      [] OTHER -> MixedResponseParser_parse(resp)

\* C22: ResponseParserFactory.parse runs the one strategy autoDetectParser
\* chose for the response: it returns the record of that strategy, or fails
\* as that strategy fails, and a failure of the chosen strategy is not
\* replaced by the record of another strategy.
C22_OneStrategyPerResponse ==
    caller = "factory" =>
        /\ parserUsed = autoDetectParser(response)
        /\ parserUsed \in {"json", "mixed", "text"}
        /\ outcome \in {"ok", "throw"}
        /\ (outcome = "throw") = Alone(parserUsed, response).threw
        /\ outcome = "throw" => record = NoRecord
        /\ outcome = "ok" => record = Alone(parserUsed, response).rec

C22_Witness ==
    /\ caller = "factory"
    /\ parserUsed = "json"
    /\ outcome = "throw"
    /\ ~MixedResponseParser_parse(response).threw
    /\ MixedResponseParser_parse(response).rec # NoRecord

\* the texts extractJson tries for a response, in the order it tries them:
\* the cleaned content of the json block, the brace candidates, the whole text
FencedCandidate(jsonMatch) ==
    IF jsonMatch.found THEN <<CleanedJson(Trim(jsonMatch.group))>> ELSE <<>>

Candidates(resp) ==
    FencedCandidate(JsonFenceMatch(resp)) \o findJsonObjects(resp) \o <<Trim(resp)>>

\* the candidate parses and passes the schema check
Validates(text) == JSONParse(text).ok /\ validateJsonStructure(JSONParse(text).val)

ValidCandidates(resp) ==
    {k \in 1..Len(Candidates(resp)) : Validates(Candidates(resp)[k])}

\* C23: the structured strategy returns the first of the json block, the
\* brace candidates in the order they were found and the whole trimmed text
\* that parses and passes the schema check, whatever the candidates before it
\* did, and it fails exactly when none of them does.
C23_FirstValidCandidate ==
    parserUsed = "json" =>
        /\ (outcome = "throw") = (ValidCandidates(response) = {})
        /\ outcome = "ok" =>
              jsonData = JSONParse(Candidates(response)[Least(ValidCandidates(response))]).val

C23_Witness ==
    /\ parserUsed = "json"
    /\ outcome = "ok"
    /\ JsonFenceMatch(response).found
    /\ Least(ValidCandidates(response)) = 3
    /\ Len(Candidates(response)) > 3

\* a second-level header of that word stands at position i
HeaderAt(s, i, word) == i + 2 <= Len(s) /\ s[i] = "##" /\ s[i + 1] = " " /\ s[i + 2] = word

\* the trimmed text between the header at i and the next header
SectionText(s, i) == Trim(Sub(s, i + 3, SectionEnd(s, i + 3) - 1))

\* the field is the content of the section of one of these words, if any
Supplies(s, words, field) ==
    \A i \in 1..Len(s) : \A w \in words : HeaderAt(s, i, w) => field = JStr(SectionText(s, i))

\* C24: when the markdown or the mixed strategy returns a record and no
\* embedded JSON supplied the fields, installInstructions is the trimmed
\* content of the 'Installation' or 'Setup' section of the response, readme
\* that of the 'README' or 'Overview' section and usageExample that of the
\* 'Usage' or 'Example' section.
C24_SectionsSupplyFields ==
    (parserUsed \in {"markdown", "mixed"} /\ outcome = "ok" /\ ~Truthy(jsonData)) =>
        /\ Supplies(response, {"Installation", "Setup"}, record.installInstructions)
        /\ Supplies(response, {"README", "Overview"}, record.readme)
        /\ Supplies(response, {"Usage", "Example"}, record.usageExample)

\* the code block embedded in the 'Server Code' section of a response
EmbeddedBlock(resp) ==
    IF ServerCodeSection(resp).found THEN TaggedBlock(ServerCodeSection(resp).group)
    ELSE NoMatch

\* C25: for a markdown response that ResponseParserFactory.parse hands to a
\* strategy other than the structured one, serverCode is the code block
\* embedded in the 'Server Code' section when there is one, whatever other
\* tagged blocks the response has; and with no such section and no block
\* tagged typescript, javascript or python it is the untagged block.
C25_ServerCodePriority ==
    (caller = "factory" /\ parserUsed # "json" /\ outcome = "ok") =>
        /\ EmbeddedBlock(response).found =>
              record.serverCode = JStr(EmbeddedBlock(response).group)
        /\ (/\ ~ServerCodeSection(response).found
            /\ extractSections(response) = <<>>
            /\ ~Truthy(TaggedCode(extractCodeBlocks(response)))
            /\ Truthy(Lookup(extractCodeBlocks(response), <<"unknown">>))) =>
              record.serverCode = Lookup(extractCodeBlocks(response), <<"unknown">>)

----------------------------------------------------------------------------
(* Further properties of generateProject.                                  *)

\* the response is shorter than 10 characters, or its lower-cased text holds
\* both 'error' and 'failed'
Suspect(resp) ==
    \/ CharLen(resp) < 10
    \/ LowerIncludes(resp, "error") /\ LowerIncludes(resp, "failed")

\* C30: generateProject rejects every response that is shorter than 10
\* characters or whose lower-cased text holds both 'error' and 'failed'
\* at the response validation: the parser never ran on it and no directory
\* or file was attempted, also when the response holds a fenced document
\* that the schema accepts; a response that reached the parser passed the
\* validation.
C30_SuspectResponsesRejected ==
    entry \in {"execute", "generateProject"} =>
        /\ ("options" \in passed /\ Suspect(source.response)) =>
              /\ "response" \notin passed
              /\ "parse" \notin passed
              /\ projParsed = NoParsed
              /\ ~projStructure.made
              /\ tried = NoAttempts
              /\ onDisk.files = <<>>
              /\ stage \notin {"parse", "build", "structure", "directories", "files",
                               "postProcess", "completed"}
              /\ stage = "failed" => RejectedAt("response")
        /\ (projParsed # NoParsed \/ stage = "parse") =>
              /\ "response" \in passed
              /\ ~Suspect(source.response)

C30_Witness ==
    /\ entry = "generateProject"
    /\ source.response = ApologeticDocument
    /\ ~ResponseParserFactory_parse(ApologeticDocument).threw
    /\ stage = "failed"
    /\ RejectedAt("response")
    /\ thrown[1].message
         = Wrapped(<<"OpenAI response indicates an error occurred during generation.">>)
    /\ projParsed = NoParsed
    /\ tried = NoAttempts

\* a full path that lies below the output path
Inside(at) == at.up = 0 /\ at.below # <<>>

\* C28: every file createFiles wrote lies inside options.outputPath, also
\* a file whose path is a key of additionalFiles with '..' segments or an
\* absolute path.
C28_WritesInsideOutputPath ==
    \A k \in 1..Len(onDisk.files) : Inside(fullPath(onDisk.files[k][1]))

----------------------------------------------------------------------------
(* ConfigurationManager: the key of OpenAI, in secret storage under        *)
(* SECRET_KEY and in the legacy setting openaiApiKey.  <<>> stands for a   *)
(* secret that is not stored and for the empty string; the calls follow    *)
(* one another.                                                            *)

MaxKeyCalls == 3  \* calls of getOpenAIApiKey and setOpenAIApiKey in a run

StoredSecrets == {<<>>, <<"sk-kept">>}

LegacyValues == {<<>>, <<" ">>, <<"sk-old">>, <<" ", "sk-old", "\n">>}

ApiKeys == {<<>>, <<" ">>, <<"sk-new">>, <<" ", "sk-new", " ">>}

\* the legacy value is returned and nothing is stored or cleared
ReadWithoutMigration(stored, setting) ==
    IF Trim(stored) # <<>>
    THEN [secret |-> stored, legacy |-> setting, value |-> stored, migrated |-> FALSE]
    ELSE [secret |-> stored, legacy |-> setting, value |-> Trim(setting), migrated |-> FALSE]

\* what getOpenAIApiKey leaves in secret storage and in the setting, and
\* the value it resolves to
getOpenAIApiKey(stored, setting) ==
    IF Trim(stored) # <<>>
    THEN [secret |-> stored, legacy |-> setting, value |-> stored, migrated |-> FALSE]
    ELSE IF Trim(setting) # <<>>
    THEN [secret |-> Trim(setting), legacy |-> <<>>, value |-> Trim(setting),
          migrated |-> TRUE]
    ELSE [secret |-> stored, legacy |-> setting, value |-> <<>>, migrated |-> FALSE]

\* what setOpenAIApiKey leaves in secret storage
setOpenAIApiKey(stored, apiKey) == Trim(apiKey)

KeyInit ==
    /\ ParseIdle
    /\ RenderIdle
    /\ SelectIdle
    /\ StructIdle
    /\ NameIdle
    /\ AiIdle
    /\ CreateIdle
    /\ TargetIdle
    /\ secret \in StoredSecrets
    /\ legacy \in LegacyValues
    /\ keyCall = "none"
    /\ keyArg = <<>>
    /\ keyReturned = <<>>
    /\ keyCalls = 0
    /\ migrated = FALSE

notKeyVars ==
    <<parseVars, renderVars, selectVars, structVars, nameVars, aiVars, createVars,
      targetVars>>

\* a call of getOpenAIApiKey that resolved as r
GotKey(r) ==
    /\ secret' = r.secret
    /\ legacy' = r.legacy
    /\ keyReturned' = r.value
    /\ migrated' = r.migrated

GetKey ==
    /\ keyCalls < MaxKeyCalls
    /\ keyCalls' = keyCalls + 1
    /\ keyCall' = "get"
    /\ GotKey(getOpenAIApiKey(secret, legacy))
    /\ UNCHANGED <<keyArg, notKeyVars>>

SetKey ==
    /\ keyCalls < MaxKeyCalls
    /\ keyCalls' = keyCalls + 1
    /\ keyCall' = "set"
    /\ \E apiKey \in ApiKeys :
          /\ keyArg' = apiKey
          /\ secret' = setOpenAIApiKey(secret, apiKey)
    /\ UNCHANGED <<legacy, keyReturned, migrated, notKeyVars>>

KeyNext ==
    \/ GetKey
    \/ SetKey

SpecKey == KeyInit /\ [][KeyNext]_vars

\* a step that is a call of the function
Called(name) == keyCalls' = keyCalls + 1 /\ keyCall' = name

\* C21: getOpenAIApiKey returns the key of secret storage when one is
\* stored; else, when the legacy setting holds a non-blank value, it stores
\* the trimmed value in secret storage, clears the setting and returns the
\* value.  After a call that returned a non-empty key the key is in secret
\* storage, after a migration the setting is empty, and setOpenAIApiKey
\* with a blank value leaves no stored secret.
C21_KeyMovesToSecretStorage ==
    [][/\ Called("get") =>
            /\ secret # <<>> =>
                  (keyReturned' = secret /\ secret' = secret /\ legacy' = legacy)
            /\ (secret = <<>> /\ ~Blank(legacy)) =>
                  /\ secret' = Trim(legacy)
                  /\ legacy' = <<>>
                  /\ keyReturned' = Trim(legacy)
                  /\ migrated'
            /\ keyReturned' # <<>> => secret' = keyReturned'
            /\ migrated' => legacy' = <<>>
       /\ (Called("set") /\ Blank(keyArg')) => secret' = <<>>]_vars

C21_Witness ==
    /\ keyCall = "get"
    /\ migrated
    /\ secret = <<"sk-old">>
    /\ keyReturned = <<"sk-old">>
    /\ legacy = <<>>

----------------------------------------------------------------------------
(* CreateServerCommand.resolveTargetDirectory: executions of createServer  *)
(* that were given the same preferred name and the same base folder, and   *)
(* that wait for the user at the same time.                                *)

MaxRuns == 2        \* executions that are interleaved

MaxCandidates == 2  \* candidate names that may exist before the executions

Runs == 1..MaxRuns

TargetInit ==
    /\ ParseIdle
    /\ RenderIdle
    /\ SelectIdle
    /\ StructIdle
    /\ NameIdle
    /\ AiIdle
    /\ CreateIdle
    /\ KeyIdle
    /\ folder \in SUBSET (0..(MaxCandidates - 1))
    /\ runAt = [r \in Runs |-> "picking"]
    /\ runDir = [r \in Runs |-> {}]
    /\ folderAt = [r \in Runs |-> [requested |-> folder, called |-> {}]]
    /\ filled = {}

notTargetVars ==
    <<parseVars, renderVars, selectVars, structVars, nameVars, aiVars, createVars, keyVars>>

\* lines 233-235, 245-247 and 262-264: the user dismissed the pick
DismissPick(r) ==
    /\ runAt[r] = "picking"
    /\ runAt' = [runAt EXCEPT ![r] = "cancelled"]
    /\ UNCHANGED <<folder, runDir, folderAt, filled, notTargetVars>>

\* lines 269-271 with the candidate ensureUniqueDirectory returned: no
\* await lies between the loop and mkdirSync, which may throw
Ensured(r, candidate, made) ==
    /\ folderAt' = [folderAt EXCEPT ![r].called = folder]
    /\ IF made
       THEN /\ folder' = folder \cup {candidate}
            /\ runDir' = [runDir EXCEPT ![r] = {candidate}]
            /\ runAt' = [runAt EXCEPT ![r] = "targeted"]
       ELSE /\ runAt' = [runAt EXCEPT ![r] = "failed"]
            /\ UNCHANGED <<folder, runDir>>

resolveTargetDirectory(r) ==
    /\ runAt[r] = "picking"
    /\ \E made \in BOOLEAN : Ensured(r, UnusedCandidate(folder), made)
    /\ UNCHANGED <<filled, notTargetVars>>

\* line 110 of execute: generateProject writes below targetInfo.fullPath
GenerateInto(r) ==
    /\ runAt[r] = "targeted"
    /\ runAt' = [runAt EXCEPT ![r] = "generated"]
    /\ filled' = filled \cup runDir[r]
    /\ UNCHANGED <<folder, runDir, folderAt, notTargetVars>>

TargetNext ==
    \E r \in Runs :
        \/ DismissPick(r)
        \/ resolveTargetDirectory(r)
        \/ GenerateInto(r)

SpecTarget == TargetInit /\ [][TargetNext]_vars

----------------------------------------------------------------------------
(* Properties of the webview and execute *)

Terminal == {"success", "warning", "error"}

\* execute returned
Returned == entry = "execute" /\ stage \in {"cancelled", "done"}

\* C26: after the Generate button was clicked the generating flag stays
\* true until the execution of createServer it started has finished, so no
\* second generateServer command is posted while that execution is in
\* progress.
C26_FlagHeldWhileInProgress ==
    (InProgress /\ posted > 0) => (generating /\ posted = 1)

\* C27: every run of execute that returned has sent a status of level
\* success, warning or error as its last status before it returned, and
\* once it returned the generating flag of the webview is eventually reset.
C27_TerminalStatusOnEveryPath ==
    /\ [](Returned => (statuses # <<>> /\ statuses[Len(statuses)].level \in Terminal))
    /\ (Returned ~> ~generating)

C27_Witness ==
    /\ posted = 1
    /\ stage = "cancelled"
    /\ Len(statuses) = 1
    /\ statuses[1] = Status("warning", <<"Server creation cancelled before choosing a destination.">>)
    /\ seen = 1
    /\ ~generating
====
